---- MODULE Spec2Model ----
(***************************************************************************)
(* Update negotiation of the CG500 BLE app: the version comparators of the *)
(* repository, the version parser/formatter of the release scripts and the *)
(* Flask update server (scripts/update_server.py).                         *)
(*                                                                         *)
(* A Python str is a sequence of one-character strings:                    *)
(*   "1.0.4+5"  is  <<"1", ".", "0", ".", "4", "+", "5">>.                 *)
(***************************************************************************)
EXTENDS Integers, Sequences, FiniteSets, TLC

VARIABLES
    v1, v2, v3,     \* the version strings handed to a comparator / parser
    fn,             \* the function applied last ("none" before any call)
    out,            \* what that call returned
    VERSION_CONFIG, \* update_server.py: the release catalog
    CONFIG,         \* update_server.py: host, port, APK directory, debug flag
    apk_dir,        \* update_server.py: the names of the files in CONFIG['apk_dir']
    fs_ops,         \* the filesystem calls made for the request served last
    request,        \* the HTTP request served last by update_server.py
    response,       \* the HTTP response it produced
    pubspec,        \* pubspec.yaml of the project the release scripts run in
    rel             \* the run of release() in progress: position, log, results

pureVars == <<v1, v2, v3, fn, out>>
httpVars == <<VERSION_CONFIG, CONFIG, apk_dir, fs_ops, request, response>>
toolVars == <<pubspec, rel>>
vars == <<v1, v2, v3, fn, out, VERSION_CONFIG, CONFIG, apk_dir, fs_ops, request, response,
          pubspec, rel>>

(***************************************************************************)
(* Bounds of the model.                                                    *)
(***************************************************************************)
MaxNum == 1         \* major, minor, patch range over 0..MaxNum
MaxBuild == 1       \* builds range over 0..MaxBuild, plus one two-digit build
MaxPad == 1         \* every numeral is written with 0..MaxPad leading zeros
MaxNameLen == 2     \* requested file names have 1..MaxNameLen characters (+ ".apk")
MaxClock == 1       \* datetime.utcnow() answers one of the instants 0..MaxClock

(***************************************************************************)
(* Python built-ins used by the sources.                                   *)
(***************************************************************************)
Digits == <<"0", "1", "2", "3", "4", "5", "6", "7", "8", "9">>

IsDigit(ch) == \E i \in 1..10 : Digits[i] = ch

DigitVal(ch) == (CHOOSE i \in 1..10 : Digits[i] = ch) - 1

IsSpace(ch) == ch \in {" ", "\n", "\t"}

\* str.split(sep) with a one-character separator
RECURSIVE Split(_, _)
Split(s, sep) ==
    IF \E i \in 1..Len(s) : s[i] = sep
    THEN LET i == CHOOSE k \in 1..Len(s) :
                      s[k] = sep /\ \A j \in 1..(k - 1) : s[j] # sep
         IN  <<SubSeq(s, 1, i - 1)>> \o Split(SubSeq(s, i + 1, Len(s)), sep)
    ELSE <<s>>

\* str.strip()
RECURSIVE Strip(_)
Strip(s) ==
    IF s = <<>> THEN s
    ELSE IF IsSpace(s[1]) THEN Strip(Tail(s))
    ELSE IF IsSpace(s[Len(s)]) THEN Strip(SubSeq(s, 1, Len(s) - 1))
    ELSE s

\* the value of a run of decimal digits and single underscores
RECURSIVE DigitsValue(_, _)
DigitsValue(s, acc) ==
    IF s = <<>> THEN acc
    ELSE IF s[1] = "_" THEN DigitsValue(Tail(s), acc)
    ELSE DigitsValue(Tail(s), 10 * acc + DigitVal(s[1]))

\* the literal int() accepts after the sign: digits, single '_' between digits
IsIntBody(s) ==
    /\ Len(s) > 0
    /\ IsDigit(s[1])
    /\ IsDigit(s[Len(s)])
    /\ \A i \in 1..Len(s) : IsDigit(s[i]) \/ s[i] = "_"
    /\ \A i \in 1..(Len(s) - 1) : ~(s[i] = "_" /\ s[i + 1] = "_")

ValueError == [ok |-> FALSE, val |-> 0]

Ok(x) == [ok |-> TRUE, val |-> x]

\* int(s) of a str: surrounding whitespace, an optional sign, the digits;
\* anything else raises ValueError
PyInt(s) ==
    LET t    == Strip(s)
        sgn  == IF t # <<>> /\ t[1] = "-" THEN -1 ELSE 1
        body == IF t # <<>> /\ t[1] \in {"+", "-"} THEN Tail(t) ELSE t
    IN  IF IsIntBody(body) THEN Ok(sgn * DigitsValue(body, 0)) ELSE ValueError

\* [int(x) for x in parts]: the list, or the first ValueError
IntList(parts) ==
    IF \E i \in 1..Len(parts) : ~PyInt(parts[i]).ok
    THEN ValueError
    ELSE Ok([i \in 1..Len(parts) |-> PyInt(parts[i]).val])

\* while len(parts) < 3: parts.append(0)
Pad3(parts, zero) ==
    [i \in 1..(IF Len(parts) < 3 THEN 3 ELSE Len(parts)) |->
        IF i <= Len(parts) THEN parts[i] ELSE zero]

\* Python's ordering of two tuples of ints: lexicographic, a proper prefix first
RECURSIVE TupleLess(_, _)
TupleLess(s, t) ==
    IF t = <<>> THEN FALSE
    ELSE IF s = <<>> THEN TRUE
    ELSE IF s[1] # t[1] THEN s[1] < t[1]
    ELSE TupleLess(Tail(s), Tail(t))

BoolInt(b) == IF b THEN 1 ELSE 0

\* for i in range(3): the first differing position decides, else 0
Cmp3(x, y) ==
    IF x[1] # y[1] THEN (IF x[1] < y[1] THEN -1 ELSE 1)
    ELSE IF x[2] # y[2] THEN (IF x[2] < y[2] THEN -1 ELSE 1)
    ELSE IF x[3] # y[3] THEN (IF x[3] < y[3] THEN -1 ELSE 1)
    ELSE 0

(***************************************************************************)
(* scripts/update_server.py: compare_versions                              *)
(***************************************************************************)
version_tuple(v) == IntList(Split(v, "."))

server_compare_versions(a, b) ==
    IF ~version_tuple(a).ok \/ ~version_tuple(b).ok
    THEN 0                                      \* except ValueError: return 0
    ELSE BoolInt(TupleLess(version_tuple(b).val, version_tuple(a).val))
         - BoolInt(TupleLess(version_tuple(a).val, version_tuple(b).val))

(***************************************************************************)
(* test_version_comparison.py: compare_versions                            *)
(***************************************************************************)
\* the build step without its last branch (elif len(v1_build) > 1: return 1)
tvc_build_compare_oneway(version1, version2) ==
    LET v1_build == Split(version1, "+")
        v2_build == Split(version2, "+")
    IN  IF Len(v1_build) > 1 /\ Len(v2_build) > 1
        THEN LET build1 == PyInt(v1_build[2])
                 build2 == PyInt(v2_build[2])
             IN  IF ~build1.ok \/ ~build2.ok THEN 0
                 ELSE IF build1.val < build2.val THEN -1
                 ELSE IF build1.val > build2.val THEN 1
                 ELSE 0
        ELSE IF Len(v2_build) > 1 THEN -1
        ELSE 0

tvc_build_compare(version1, version2) ==
    LET v1_build == Split(version1, "+")
        v2_build == Split(version2, "+")
    IN  IF Len(v1_build) > 1 /\ Len(v2_build) > 1
        THEN LET build1 == PyInt(v1_build[2])
                 build2 == PyInt(v2_build[2])
             IN  IF ~build1.ok \/ ~build2.ok THEN 0         \* except: pass
                 ELSE IF build1.val < build2.val THEN -1
                 ELSE IF build1.val > build2.val THEN 1
                 ELSE 0
        ELSE IF Len(v2_build) > 1 THEN -1
        ELSE IF Len(v1_build) > 1 THEN 1
        ELSE 0

\* the comparison that stops after major.minor.patch
tvc_compare_versions_nobuild(version1, version2) ==
    LET v1_parts == IntList(Split(Split(version1, "+")[1], "."))
        v2_parts == IntList(Split(Split(version2, "+")[1], "."))
    IN  IF ~v1_parts.ok \/ ~v2_parts.ok
        THEN 0
        ELSE Cmp3(Pad3(v1_parts.val, 0), Pad3(v2_parts.val, 0))

tvc_compare_versions(version1, version2) ==
    LET v1_parts == IntList(Split(Split(version1, "+")[1], "."))
        v2_parts == IntList(Split(Split(version2, "+")[1], "."))
    IN  IF ~v1_parts.ok \/ ~v2_parts.ok
        THEN 0                                  \* except Exception: return 0
        ELSE LET c == Cmp3(Pad3(v1_parts.val, 0), Pad3(v2_parts.val, 0))
             IN  IF c # 0 THEN c ELSE tvc_build_compare(version1, version2)

(***************************************************************************)
(* test_update.py: compare_versions (the build is dropped)                 *)
(***************************************************************************)
tu_compare_versions(current, latest) ==
    LET current_parts == Pad3(Split(Split(current, "+")[1], "."), <<"0">>)
        latest_parts  == Pad3(Split(Split(latest, "+")[1], "."), <<"0">>)
        current_ints  == IntList(SubSeq(current_parts, 1, 3))
        latest_ints   == IntList(SubSeq(latest_parts, 1, 3))
    IN  IF ~current_ints.ok \/ ~latest_ints.ok
        THEN 0                                  \* except Exception: return 0
        ELSE Cmp3(current_ints.val, latest_ints.val)

(***************************************************************************)
(* test_complete_update_flow.py: compare_versions_flutter_style            *)
(***************************************************************************)
\* the build step with build2 >= build1 for build2 > build1
flutter_build_compare_geq(current, latest) ==
    LET current_build == Split(current, "+")
        latest_build  == Split(latest, "+")
    IN  IF Len(current_build) > 1 /\ Len(latest_build) > 1
        THEN LET build1 == PyInt(current_build[2])
                 build2 == PyInt(latest_build[2])
             IN  IF ~build1.ok \/ ~build2.ok THEN FALSE
                 ELSE build2.val >= build1.val
        ELSE IF Len(latest_build) > 1 THEN TRUE
        ELSE FALSE

flutter_build_compare(current, latest) ==
    LET current_build == Split(current, "+")
        latest_build  == Split(latest, "+")
    IN  IF Len(current_build) > 1 /\ Len(latest_build) > 1
        THEN LET build1 == PyInt(current_build[2])
                 build2 == PyInt(latest_build[2])
             IN  IF ~build1.ok \/ ~build2.ok THEN FALSE     \* except: pass
                 ELSE build2.val > build1.val
        ELSE IF Len(latest_build) > 1 THEN TRUE
        ELSE FALSE

compare_versions_flutter_style(current, latest) ==
    LET current_parts == IntList(Split(Split(current, "+")[1], "."))
        latest_parts  == IntList(Split(Split(latest, "+")[1], "."))
    IN  IF ~current_parts.ok \/ ~latest_parts.ok
        THEN FALSE                              \* except Exception: return False
        ELSE LET c == Cmp3(Pad3(current_parts.val, 0), Pad3(latest_parts.val, 0))
             IN  IF c # 0 THEN c < 0 ELSE flutter_build_compare(current, latest)

(***************************************************************************)
(* test_update_simple.py: compare_versions                                 *)
(***************************************************************************)
\* the build step with its last branch testing the current version's build
tus_build_compare_current_only(current, latest) ==
    LET current_build == Split(current, "+")
        latest_build  == Split(latest, "+")
    IN  IF Len(current_build) > 1 /\ Len(latest_build) > 1
        THEN LET build1 == PyInt(current_build[2])
                 build2 == PyInt(latest_build[2])
             IN  IF ~build1.ok \/ ~build2.ok THEN FALSE
                 ELSE build2.val > build1.val
        ELSE IF Len(current_build) > 1 THEN TRUE
        ELSE FALSE

tus_build_compare(current, latest) ==
    LET current_build == Split(current, "+")
        latest_build  == Split(latest, "+")
    IN  IF Len(current_build) > 1 /\ Len(latest_build) > 1
        THEN LET build1 == PyInt(current_build[2])
                 build2 == PyInt(latest_build[2])
             IN  IF ~build1.ok \/ ~build2.ok THEN FALSE     \* except: pass
                 ELSE build2.val > build1.val
        ELSE IF Len(latest_build) > 1 THEN TRUE
        ELSE FALSE

tus_compare_versions(current, latest) ==
    LET current_parts == IntList(Split(Split(current, "+")[1], "."))
        latest_parts  == IntList(Split(Split(latest, "+")[1], "."))
    IN  IF ~current_parts.ok \/ ~latest_parts.ok
        THEN FALSE                              \* except Exception: return False
        ELSE LET c == Cmp3(Pad3(current_parts.val, 0), Pad3(latest_parts.val, 0))
             IN  IF c # 0 THEN c < 0 ELSE tus_build_compare(current, latest)

(***************************************************************************)
(* scripts/update_version.py: parse_version, format_version                *)
(* (scripts/simple_release.py carries the same two functions)              *)
(***************************************************************************)
\* str(n) of a non-negative int
RECURSIVE Decimal(_)
Decimal(n) ==
    IF n < 10 THEN <<Digits[n + 1]>>
    ELSE Decimal(n \div 10) \o <<Digits[(n % 10) + 1]>>

IsDigitRun(s) == Len(s) > 0 /\ \A i \in 1..Len(s) : IsDigit(s[i])

\* re.match(r'^(\d+)\.(\d+)\.(\d+)\+(\d+)$', s): the four groups, or no match.
\* '$' also matches just before one trailing newline.
VersionMatch(s) ==
    LET t     == IF s # <<>> /\ s[Len(s)] = "\n" THEN SubSeq(s, 1, Len(s) - 1) ELSE s
        plus  == Split(t, "+")
        dots  == Split(plus[1], ".")
    IN  IF /\ Len(plus) = 2
           /\ Len(dots) = 3
           /\ \A i \in 1..3 : IsDigitRun(dots[i])
           /\ IsDigitRun(plus[2])
        THEN [ok |-> TRUE, groups |-> <<dots[1], dots[2], dots[3], plus[2]>>]
        ELSE [ok |-> FALSE, groups |-> <<>>]

\* the parser with the build group optional: (\+(\d+))?, a missing build read as 0
parse_version_optional_build(version_string) ==
    LET match == VersionMatch(version_string \o <<"+", "0">>)
        full  == VersionMatch(version_string)
        m     == IF full.ok THEN full ELSE match
    IN  IF ~m.ok
        THEN ValueError
        ELSE Ok([major |-> PyInt(m.groups[1]).val,
                 minor |-> PyInt(m.groups[2]).val,
                 patch |-> PyInt(m.groups[3]).val,
                 build |-> PyInt(m.groups[4]).val])

parse_version(version_string) ==
    LET match == VersionMatch(version_string)
    IN  IF ~match.ok
        THEN ValueError                         \* raise ValueError
        ELSE Ok([major |-> PyInt(match.groups[1]).val,
                 minor |-> PyInt(match.groups[2]).val,
                 patch |-> PyInt(match.groups[3]).val,
                 build |-> PyInt(match.groups[4]).val])

\* the formatter with '.' for '+' before the build
format_version_dot(version_dict) ==
    Decimal(version_dict.major) \o <<".">> \o Decimal(version_dict.minor)
        \o <<".">> \o Decimal(version_dict.patch)
        \o <<".">> \o Decimal(version_dict.build)

format_version(version_dict) ==
    Decimal(version_dict.major) \o <<".">> \o Decimal(version_dict.minor)
        \o <<".">> \o Decimal(version_dict.patch)
        \o <<"+">> \o Decimal(version_dict.build)

(***************************************************************************)
(* The inputs the functions are applied to.                                *)
(***************************************************************************)
Zeros(k) == [i \in 1..k |-> "0"]

\* the numeral of n written with k leading zeros
Numeral(n, k) == Zeros(k) \o Decimal(n)

Nums == 0..MaxNum

\* the builds: 0..MaxBuild and one build of two digits
Builds == (0..MaxBuild) \cup {MaxBuild + 9}

Pads == 0..MaxPad

TripleText(M, m, p, k) ==
    Numeral(M, k) \o <<".">> \o Numeral(m, k) \o <<".">> \o Numeral(p, k)

\* major.minor.patch and major.minor.patch+build
VersionsPadded(pads) ==
    {TripleText(M, m, p, k) : M \in Nums, m \in Nums, p \in Nums, k \in pads}
    \cup
    {TripleText(x[1], x[2], x[3], k) \o <<"+">> \o Numeral(b, k) :
        x \in Nums \X Nums \X Nums, b \in Builds, k \in pads}

ValidVersions == VersionsPadded(Pads)

PlainVersions == VersionsPadded({0})

(***************************************************************************)
(* The version order the comparators are measured against: a valid text    *)
(* denotes (major, minor, patch, build), build absent or a number; the     *)
(* triple decides first, then the build, an absent build below any build.  *)
(***************************************************************************)
IsVersionText(s) ==
    LET plus == Split(s, "+")
        dots == Split(plus[1], ".")
    IN  /\ Len(plus) \in {1, 2}
        /\ Len(dots) = 3
        /\ \A i \in 1..3 : IsDigitRun(dots[i])
        /\ Len(plus) = 2 => IsDigitRun(plus[2])

HasBuild(s) == Len(Split(s, "+")) = 2

TripleOf(s) ==
    LET dots == Split(Split(s, "+")[1], ".")
    IN  <<DigitsValue(dots[1], 0), DigitsValue(dots[2], 0), DigitsValue(dots[3], 0)>>

BuildOf(s) == DigitsValue(Split(s, "+")[2], 0)

VersionLess(s, t) ==
    LET x == TripleOf(s)
        y == TripleOf(t)
    IN  \/ x[1] < y[1]
        \/ x[1] = y[1] /\ x[2] < y[2]
        \/ x[1] = y[1] /\ x[2] = y[2] /\ x[3] < y[3]
        \/ /\ x = y
           /\ \/ ~HasBuild(s) /\ HasBuild(t)
              \/ HasBuild(s) /\ HasBuild(t) /\ BuildOf(s) < BuildOf(t)

\* LESS = -1, EQUAL = 0, GREATER = 1
VersionOrder(s, t) ==
    IF VersionLess(s, t) THEN -1 ELSE IF VersionLess(t, s) THEN 1 ELSE 0

(***************************************************************************)
(* SpecCmp: every comparator applied to every pair of valid versions.      *)
(***************************************************************************)
NoRequest == [endpoint |-> "none"]

NoResponse == [status |-> 0]

\* no pubspec.yaml at hand and no release running; the comparator, parser and
\* server specifications leave the release scripts there
NoFile == [exists |-> FALSE, lines |-> <<>>]

NoRelease == [pc |-> "none"]

IdleTool ==
    /\ pubspec = NoFile
    /\ rel = NoRelease

\* the server as it is before any request; the comparator and parser
\* specifications leave it there
IdleHttp ==
    /\ VERSION_CONFIG = <<>>
    /\ CONFIG = <<>>
    /\ apk_dir = {}
    /\ fs_ops = <<>>
    /\ request = NoRequest
    /\ response = NoResponse

InitCmp ==
    /\ v1 \in ValidVersions
    /\ v2 \in ValidVersions
    /\ v3 = <<>>
    /\ fn = "none"
    /\ out = 0
    /\ IdleHttp
    /\ IdleTool

ServerCompare ==
    /\ fn = "none"
    /\ fn' = "server_compare_versions"
    /\ out' = server_compare_versions(v1, v2)
    /\ UNCHANGED <<v1, v2, v3, httpVars, toolVars>>

TvcCompare ==
    /\ fn = "none"
    /\ fn' = "tvc_compare_versions"
    /\ out' = tvc_compare_versions(v1, v2)
    /\ UNCHANGED <<v1, v2, v3, httpVars, toolVars>>

TuCompare ==
    /\ fn = "none"
    /\ fn' = "tu_compare_versions"
    /\ out' = tu_compare_versions(v1, v2)
    /\ UNCHANGED <<v1, v2, v3, httpVars, toolVars>>

FlutterCompare ==
    /\ fn = "none"
    /\ fn' = "compare_versions_flutter_style"
    /\ out' = compare_versions_flutter_style(v1, v2)
    /\ UNCHANGED <<v1, v2, v3, httpVars, toolVars>>

TusCompare ==
    /\ fn = "none"
    /\ fn' = "tus_compare_versions"
    /\ out' = tus_compare_versions(v1, v2)
    /\ UNCHANGED <<v1, v2, v3, httpVars, toolVars>>

NextCmp ==
    \/ ServerCompare
    \/ TvcCompare
    \/ TuCompare
    \/ FlutterCompare
    \/ TusCompare

SpecCmp == InitCmp /\ [][NextCmp]_vars

(***************************************************************************)
(* Properties of the comparators (SpecCmp).                                *)
(***************************************************************************)
SameTriple == TripleOf(v1) = TripleOf(v2)

\* C3: test_version_comparison.compare_versions orders two valid versions by
\* (major, minor, patch) as integers and, the triples equal, by build: a
\* version without build is LESS than the same triple with any build, two
\* builds compare as integers, equal versions are EQUAL.
C3_TvcIsVersionOrder ==
    fn = "tvc_compare_versions" => out = VersionOrder(v1, v2)

\* "1.0.4" against "1.0.4+1"-like pairs: same triple, only the second has a build
C3_Witness ==
    /\ fn = "tvc_compare_versions"
    /\ SameTriple /\ ~HasBuild(v1) /\ HasBuild(v2)
    /\ out = -1

\* C4: compare_versions_flutter_style(current, latest), and compare_versions
\* of test_update_simple.py, return true exactly when latest is strictly
\* greater than current in the build-aware version order.
C4_HasUpdateIsStrictlyGreater ==
    /\ fn = "compare_versions_flutter_style" => out = VersionLess(v1, v2)
    /\ fn = "tus_compare_versions" => out = VersionLess(v1, v2)

\* same triple, both builds present, the latest build the greater one
C4_Witness ==
    /\ fn = "compare_versions_flutter_style"
    /\ SameTriple /\ HasBuild(v1) /\ HasBuild(v2) /\ BuildOf(v1) < BuildOf(v2)
    /\ out = TRUE

\* C8: antisymmetry, compare(a, b) = -compare(b, a), of the three-way
\* comparators of update_server.py, test_version_comparison.py and
\* test_update.py on valid versions.
C8_Antisymmetry ==
    /\ fn = "server_compare_versions" => out = -server_compare_versions(v2, v1)
    /\ fn = "tvc_compare_versions" => out = -tvc_compare_versions(v2, v1)
    /\ fn = "tu_compare_versions" => out = -tu_compare_versions(v2, v1)

\* only the first version has a build and the comparator answers GREATER
C8_Witness ==
    /\ fn = "tvc_compare_versions"
    /\ SameTriple /\ HasBuild(v1) /\ ~HasBuild(v2)
    /\ out = 1

\* C9: "X.Y.Z" against "X.Y.Z+0" is never EQUAL in any three-way comparator:
\* the version without a build is LESS.
C9_BuildZeroIsNotAbsent ==
    (/\ fn \in {"server_compare_versions", "tvc_compare_versions",
                "tu_compare_versions"}
     /\ SameTriple /\ ~HasBuild(v1) /\ HasBuild(v2) /\ BuildOf(v2) = 0)
    => out = -1

(***************************************************************************)
(* SpecTrans: the three-way comparators applied to three valid versions.   *)
(***************************************************************************)
InitTrans ==
    /\ v1 \in PlainVersions
    /\ v2 \in PlainVersions
    /\ v3 \in PlainVersions
    /\ fn = "none"
    /\ out = <<>>
    /\ IdleHttp
    /\ IdleTool

\* out = <<compare(a, b), compare(b, c), compare(a, c)>>
ServerCompare3 ==
    /\ fn = "none"
    /\ fn' = "server_compare_versions"
    /\ out' = <<server_compare_versions(v1, v2), server_compare_versions(v2, v3),
                server_compare_versions(v1, v3)>>
    /\ UNCHANGED <<v1, v2, v3, httpVars, toolVars>>

TvcCompare3 ==
    /\ fn = "none"
    /\ fn' = "tvc_compare_versions"
    /\ out' = <<tvc_compare_versions(v1, v2), tvc_compare_versions(v2, v3),
                tvc_compare_versions(v1, v3)>>
    /\ UNCHANGED <<v1, v2, v3, httpVars, toolVars>>

NextTrans ==
    \/ ServerCompare3
    \/ TvcCompare3

SpecTrans == InitTrans /\ [][NextTrans]_vars

\* C7: transitivity of compare_versions of update_server.py and of
\* test_version_comparison.py on valid versions: compare(a,b) <= 0 and
\* compare(b,c) <= 0 imply compare(a,c) <= 0, and compare(a,b) = 0 and
\* compare(b,c) = 0 imply compare(a,c) = 0.
C7_Transitivity ==
    fn \in {"server_compare_versions", "tvc_compare_versions"} =>
        /\ (out[1] <= 0 /\ out[2] <= 0) => out[3] <= 0
        /\ (out[1] = 0 /\ out[2] = 0) => out[3] = 0

\* the same statement of test_version_comparison.compare_versions alone
TvcTransitivity ==
    fn = "tvc_compare_versions" =>
        /\ (out[1] <= 0 /\ out[2] <= 0) => out[3] <= 0
        /\ (out[1] = 0 /\ out[2] = 0) => out[3] = 0

(***************************************************************************)
(* SpecParse: parse_version and format_version applied to version texts,   *)
(* well-formed and malformed.                                              *)
(***************************************************************************)
JunkChars == {"x", " ", "\n", "+", ".", "_", "-"}

Prefixes(s) == {SubSeq(s, 1, k) : k \in 0..Len(s)}

VersionTexts ==
    ValidVersions
    \cup {Append(s, ch) : s \in PlainVersions, ch \in JunkChars}
    \cup {<<ch>> \o s : s \in PlainVersions, ch \in JunkChars}
    \cup UNION {Prefixes(s) : s \in PlainVersions}
    \cup {<<"a", "b", "c">>}

InitParse ==
    /\ v1 \in VersionTexts
    /\ v2 = <<>>
    /\ v3 = <<>>
    /\ fn = "none"
    /\ out = 0
    /\ IdleHttp
    /\ IdleTool

\* version = parse_version(version_string)
ParseVersion ==
    /\ fn = "none"
    /\ fn' = "parse_version"
    /\ out' = parse_version(v1)
    /\ UNCHANGED <<v1, v2, v3, httpVars, toolVars>>

\* format_version(version) of the version just parsed
FormatVersion ==
    /\ fn = "parse_version"
    /\ out.ok
    /\ fn' = "format_version"
    /\ out' = format_version(out.val)
    /\ UNCHANGED <<v1, v2, v3, httpVars, toolVars>>

NextParse ==
    \/ ParseVersion
    \/ FormatVersion

SpecParse == InitParse /\ [][NextParse]_vars

\* digits.digits.digits+digits, the build required
IsBuildVersionText(s) == IsVersionText(s) /\ HasBuild(s)

\* s without the one newline '$' lets pass at the end
ChompNewline(s) ==
    IF s # <<>> /\ s[Len(s)] = "\n" THEN SubSeq(s, 1, Len(s) - 1) ELSE s

\* no numeral of s is written with a leading zero
NoLeadingZeros(s) ==
    LET plus == Split(s, "+")
        dots == Split(plus[1], ".")
    IN  /\ \A i \in 1..Len(dots) : Len(dots[i]) > 1 => dots[i][1] # "0"
        /\ Len(plus) = 2 /\ Len(plus[2]) > 1 => plus[2][1] # "0"

C6_RoundTripEveryValid ==
    IsVersionText(v1) =>
        /\ fn = "parse_version" => out.ok
        /\ fn = "format_version" => out = v1

\* C6 amended: format_version(parse_version(s)) = s for every s of the form
\* digits.digits.digits+digits whose numerals carry no leading zero; with
\* leading zeros the result is s with them removed, and a version without
\* build does not parse.
C6_RoundTripCanonical ==
    /\ (fn = "format_version" /\ IsBuildVersionText(v1) /\ NoLeadingZeros(v1))
          => out = v1
    /\ (fn = "format_version" /\ IsBuildVersionText(v1))
          => /\ IsBuildVersionText(out) /\ NoLeadingZeros(out)
             /\ TripleOf(out) = TripleOf(v1) /\ BuildOf(out) = BuildOf(v1)
    /\ (fn = "parse_version" /\ IsVersionText(v1) /\ ~HasBuild(v1)) => ~out.ok

\* a canonical version with a two-digit build went through parse and format
C6_Witness ==
    /\ fn = "format_version"
    /\ IsBuildVersionText(v1) /\ NoLeadingZeros(v1)
    /\ BuildOf(v1) = MaxBuild + 9
    /\ out = v1

(***************************************************************************)
(* scripts/update_server.py: the Flask application.                        *)
(***************************************************************************)
Key100 == <<"1", ".", "0", ".", "0">>               \* '1.0.0'

KeyDefault == <<"d", "e", "f", "a", "u", "l", "t">> \* 'default'

DotApk == <<".", "a", "p", "k">>                    \* '.apk'

\* an entry of VERSION_CONFIG for the release `latest`
ReleaseEntry(latest, forced) ==
    [latest_version |-> latest,
     download_url   |-> <<"c", "g", "5", "0", "0", "_", "v">> \o latest \o DotApk,
     download_size  |-> 15728640,
     release_notes  |-> "notes",
     is_forced      |-> forced,
     update_type    |-> "recommended",
     release_date   |-> "2024-01-15T10:00:00Z"]

\* the releases the catalog is edited to when a version is published:
\* 1.minor.0, and 1.1.0 with a build ('1.1.0' is the one in the source)
ReleaseVersions ==
    {TripleText(1, m, 0, 0) : m \in Nums}
    \cup {TripleText(1, 1, 0, 0) \o <<"+">> \o Decimal(b) : b \in Builds}

\* the files the operator has placed in the APK directory
ApkStores == {{}, {<<"a">> \o DotApk}}

KeyError == [ok |-> FALSE, val |-> "KeyError"]

\* the lookup that answers the 'default' entry for every key
get_version_config_default_only(cfg, current_version) ==
    IF KeyDefault \notin DOMAIN cfg THEN KeyError
    ELSE Ok(cfg[KeyDefault])

\* VERSION_CONFIG.get(current_version, VERSION_CONFIG['default']): the default
\* argument is evaluated first
get_version_config(cfg, current_version) ==
    IF KeyDefault \notin DOMAIN cfg THEN KeyError
    ELSE IF current_version \in DOMAIN cfg THEN Ok(cfg[current_version])
    ELSE Ok(cfg[KeyDefault])

Some(x) == [present |-> TRUE, value |-> x]

None == [present |-> FALSE, value |-> <<>>]

\* headers.get(name) without its default: an absent header reads as ''
HeaderGet_no_default(header, default) == header.value

\* request.headers.get(name, default)
HeaderGet(header, default) == IF header.present THEN header.value ELSE default

InternalServerError == [status |-> 500, body |-> [error |-> "Internal server error"]]

NotFoundResponse == [status |-> 404, body |-> [error |-> "Not found"]]

\* has_update = compare_versions(latest_version, current_version) > 0
has_update_of(latest_version, current_version) ==
    server_compare_versions(latest_version, current_version) > 0

\* the JSON object with is_forced derived from the size of the version jump
response_data_forced_by_jump(config, current_version) ==
    LET latest_version == config.latest_version
        has_update     == has_update_of(latest_version, current_version)
    IN  IF has_update
        THEN [current_version |-> current_version,
              latest_version  |-> latest_version,
              has_update      |-> has_update,
              download_url    |-> config.download_url,
              download_size   |-> config.download_size,
              release_notes   |-> config.release_notes,
              is_forced       |-> version_tuple(latest_version).val[1]
                                     > version_tuple(current_version).val[1],
              update_type     |-> config.update_type,
              release_date    |-> config.release_date]
        ELSE [current_version |-> current_version,
              latest_version  |-> latest_version,
              has_update      |-> has_update]

\* the JSON object with the download fields whether or not there is an update
response_data_always_full(config, current_version) ==
    LET latest_version == config.latest_version
        has_update     == has_update_of(latest_version, current_version)
    IN  [current_version |-> current_version,
         latest_version  |-> latest_version,
         has_update      |-> has_update,
         download_url    |-> config.download_url,
         download_size   |-> config.download_size,
         release_notes   |-> config.release_notes,
         is_forced       |-> config.is_forced,
         update_type     |-> config.update_type,
         release_date    |-> config.release_date]

\* the JSON object check_version returns
response_data(config, current_version) ==
    LET latest_version == config.latest_version
        has_update     == has_update_of(latest_version, current_version)
    IN  IF has_update
        THEN [current_version |-> current_version,
              latest_version  |-> latest_version,
              has_update      |-> has_update,
              download_url    |-> config.download_url,
              download_size   |-> config.download_size,
              release_notes   |-> config.release_notes,
              is_forced       |-> config.is_forced,
              update_type     |-> config.update_type,
              release_date    |-> config.release_date]
        ELSE [current_version |-> current_version,
              latest_version  |-> latest_version,
              has_update      |-> has_update]

\* the version check that offers updates to Platform: android only
check_version_android_only(cfg, headers) ==
    LET current_version == HeaderGet(headers.current_version, Key100)
        config          == get_version_config(cfg, current_version)
        platform        == HeaderGet(headers.platform, "android")
    IN  IF ~config.ok
        THEN InternalServerError
        ELSE IF platform # "android"
        THEN [status |-> 200,
              body   |-> [current_version |-> current_version,
                          latest_version  |-> config.val.latest_version,
                          has_update      |-> FALSE]]
        ELSE [status |-> 200, body |-> response_data(config.val, current_version)]

\* GET /api/version
check_version(cfg, headers) ==
    LET current_version == HeaderGet(headers.current_version, Key100)
        config          == get_version_config(cfg, current_version)
    IN  IF ~config.ok
        THEN InternalServerError                \* except Exception: ..., 500
        ELSE [status |-> 200, body |-> response_data(config.val, current_version)]

\* str.isalnum() of one character: ASCII letters and digits, and the letters
\* and digits beyond ASCII ("U+00E9" stands for the one character e-acute)
IsAlnumChar(ch) == IsDigit(ch) \/ ch \in {"a", "A", "z", "p", "k", "U+00E9"}

\* filename.replace('.', '').replace('-', '').replace('_', '').isalnum()
FilenameCheck(filename) ==
    LET rest == SelectSeq(filename, LAMBDA ch : ch \notin {".", "-", "_"})
    IN  Len(rest) > 0 /\ \A i \in 1..Len(rest) : IsAlnumChar(rest[i])

\* filename.endswith('.apk')
EndsWithApk(filename) ==
    Len(filename) >= 4 /\ SubSeq(filename, Len(filename) - 3, Len(filename)) = DotApk

\* '.apk' appended to every name
NormalizeApk_always(filename) == filename \o DotApk

\* if not filename.endswith('.apk'): filename += '.apk'
NormalizeApk(filename) ==
    IF EndsWithApk(filename) THEN filename ELSE filename \o DotApk

\* Path(os.getenv('APK_DIR', './apks'))
ApkDirPath == <<".", "/", "a", "p", "k", "s">>

\* the CONFIG dict with the environment's defaults
DefaultConfig ==
    [host |-> "0.0.0.0", port |-> 3000, apk_dir |-> ApkDirPath, debug |-> FALSE]

\* CONFIG['apk_dir'] / filename: an absolute right operand replaces the left
PathJoin(dir, name) ==
    IF name # <<>> /\ name[1] = "/" THEN name ELSE dir \o <<"/">> \o name

\* file_path.exists(): the files the model knows are those of the APK directory
PathExists(files, file_path) ==
    \E n \in files : PathJoin(CONFIG.apk_dir, n) = file_path

\* the try block looking the file up before it checks the name
download_fs_ops_unchecked(files, filename) ==
    LET file_path == PathJoin(CONFIG.apk_dir, NormalizeApk(filename))
    IN  IF ~PathExists(files, file_path)
        THEN <<[op |-> "exists", path |-> file_path]>>
        ELSE <<[op |-> "exists", path |-> file_path],
               [op |-> "open", path |-> file_path]>>

\* the filesystem calls of the try block of download_apk, in order:
\* file_path.exists(), then send_file(file_path) opening the file
download_fs_ops(files, filename) ==
    LET file_path == PathJoin(CONFIG.apk_dir, NormalizeApk(filename))
    IN  IF ~FilenameCheck(filename) THEN <<>>
        ELSE IF ~PathExists(files, file_path)
        THEN <<[op |-> "exists", path |-> file_path]>>
        ELSE <<[op |-> "exists", path |-> file_path],
               [op |-> "open", path |-> file_path]>>

\* the try block of download_apk: what it returns or the exception it raises
download_try(files, filename) ==
    IF ~FilenameCheck(filename)
    THEN [raised |-> "BadRequest"]              \* abort(400, 'Invalid filename')
    ELSE IF ~PathExists(files, PathJoin(CONFIG.apk_dir, NormalizeApk(filename)))
    THEN [raised |-> "NotFound"]                \* abort(404, 'File not found')
    ELSE [raised |-> "no",
          value  |-> [status |-> 200,
                      body   |-> [file          |-> NormalizeApk(filename),
                                  mimetype      |-> "application/vnd.android.package-archive",
                                  download_name |-> NormalizeApk(filename)]]]

\* download_apk without its 'except NotFound: raise' clause
download_apk_catch_all(files, filename) ==
    LET r == download_try(files, filename)
    IN  IF r.raised = "no" THEN r.value ELSE InternalServerError

\* download_apk: except NotFound re-raises (the 404 handler answers), except
\* Exception catches every other exception, the HTTPException of abort(400)
\* too, and answers abort(500)
download_apk(files, filename) ==
    LET r == download_try(files, filename)
    IN  IF r.raised = "no" THEN r.value
        ELSE IF r.raised = "NotFound" THEN NotFoundResponse
        ELSE InternalServerError

\* filename.endswith('.apk') for each file CONFIG['apk_dir'].glob('*.apk') yields
GlobApk(files) == {n \in files : EndsWithApk(n)}

\* GET /api/stats at the instant now (the APK directory exists since startup)
get_stats(cfg, files, now) ==
    IF KeyDefault \notin DOMAIN cfg
    THEN InternalServerError                    \* except Exception: ..., 500
    ELSE [status |-> 200,
          body   |-> [server_time        |-> now,
                      available_versions |-> Cardinality(GlobApk(files)),
                      apk_files          |-> GlobApk(files),
                      latest_version     |-> cfg[KeyDefault].latest_version]]

\* GET /health at the instant now
health_check(now) ==
    [status |-> 200,
     body   |-> [status |-> "healthy", timestamp |-> now, version |-> Key100]]

\* the rule '/api/download/<filename>': <filename> is one non-empty path
\* segment
Routed(filename) == Len(filename) > 0 /\ \A i \in 1..Len(filename) : filename[i] # "/"

(***************************************************************************)
(* Spec: the update server answering version checks and downloads.         *)
(***************************************************************************)
FileChars == {"a", "1", ".", "-", "_", " ", "/", "\\", "U+00E9"}

RECURSIVE NamesOfLen(_)
NamesOfLen(n) ==
    IF n = 0 THEN {<<>>}
    ELSE {Append(s, ch) : s \in NamesOfLen(n - 1), ch \in FileChars}

ShortNames == UNION {NamesOfLen(n) : n \in 1..MaxNameLen}

\* the requested names: short names, as they are and with '.apk'
Filenames == ShortNames \cup {s \o DotApk : s \in ShortNames}

\* the headers that are only logged
LoggedHeaders ==
    {[platform |-> None, current_build |-> None],
     [platform |-> Some("ios"), current_build |-> Some("7")]}

Init ==
    /\ v1 = <<>> /\ v2 = <<>> /\ v3 = <<>>
    /\ fn = "none"
    /\ out = 0
    /\ \E latest \in ReleaseVersions, forced \in BOOLEAN :
          VERSION_CONFIG =
              (Key100 :> ReleaseEntry(TripleText(1, 1, 0, 0), FALSE))
              @@ (KeyDefault :> ReleaseEntry(latest, forced))
    /\ CONFIG = DefaultConfig
    /\ apk_dir \in ApkStores
    /\ fs_ops = <<>>
    /\ request = NoRequest
    /\ response = NoResponse
    /\ IdleTool

\* GET /api/version with or without a Current-Version header
CheckVersion ==
    \E cv \in {Some(s) : s \in VersionTexts} \cup {None}, h \in LoggedHeaders :
        LET headers == [current_version |-> cv,
                        current_build   |-> h.current_build,
                        platform        |-> h.platform]
        IN  /\ request = NoRequest
            /\ request' = [endpoint |-> "/api/version", headers |-> headers]
            /\ response' = check_version(VERSION_CONFIG, headers)
            /\ fs_ops' = <<>>
            /\ UNCHANGED <<pureVars, toolVars, VERSION_CONFIG, CONFIG, apk_dir>>

\* GET /api/download/<filename>
DownloadApk ==
    \E filename \in Filenames :
        /\ request = NoRequest
        /\ request' = [endpoint |-> "/api/download", filename |-> filename]
        /\ response' = IF Routed(filename)
                       THEN download_apk(apk_dir, filename)
                       ELSE NotFoundResponse
        /\ fs_ops' = IF Routed(filename)
                     THEN download_fs_ops(apk_dir, filename)
                     ELSE <<>>
        /\ UNCHANGED <<pureVars, toolVars, VERSION_CONFIG, CONFIG, apk_dir>>

\* GET /api/stats
GetStats ==
    \E now \in 0..MaxClock :
        /\ request = NoRequest
        /\ request' = [endpoint |-> "/api/stats"]
        /\ response' = get_stats(VERSION_CONFIG, apk_dir, now)
        /\ fs_ops' = <<[op |-> "exists", path |-> CONFIG.apk_dir],
                       [op |-> "glob", path |-> CONFIG.apk_dir]>>
        /\ UNCHANGED <<pureVars, toolVars, VERSION_CONFIG, CONFIG, apk_dir>>

\* GET /health
HealthCheck ==
    \E now \in 0..MaxClock :
        /\ request = NoRequest
        /\ request' = [endpoint |-> "/health"]
        /\ response' = health_check(now)
        /\ fs_ops' = <<>>
        /\ UNCHANGED <<pureVars, toolVars, VERSION_CONFIG, CONFIG, apk_dir>>

\* the response has been sent: the server waits for the next request
Finish ==
    /\ request # NoRequest
    /\ request' = NoRequest
    /\ response' = NoResponse
    /\ fs_ops' = <<>>
    /\ UNCHANGED <<pureVars, toolVars, VERSION_CONFIG, CONFIG, apk_dir>>

Next ==
    \/ CheckVersion
    \/ DownloadApk
    \/ GetStats
    \/ HealthCheck
    \/ Finish

Spec == Init /\ [][Next]_vars

\* the catalog entry a version check for `cv` is decided against
LookedUp(cv) ==
    IF cv \in DOMAIN VERSION_CONFIG THEN VERSION_CONFIG[cv]
    ELSE VERSION_CONFIG[KeyDefault]

IsVersionCheck == request.endpoint = "/api/version"

SentVersion == request.headers.current_version

\* C1: for every valid client version c and catalog release r, check_version
\* reports has_update = true exactly when r is strictly greater than c in the
\* version order (triple first, then build).
C1_HasUpdateIffReleaseGreater ==
    (IsVersionCheck /\ SentVersion.present /\ IsVersionText(SentVersion.value))
    => /\ response.status = 200
       /\ response.body.has_update
             = VersionLess(SentVersion.value,
                           LookedUp(SentVersion.value).latest_version)

\* C2: a version check whose Current-Version is not major.minor.patch or
\* major.minor.patch+build is answered with 400, never with a 200 decision
\* and never with 500.
C2_MalformedVersionIs400 ==
    (IsVersionCheck /\ SentVersion.present /\ ~IsVersionText(SentVersion.value))
    => response.status = 400

\* ^[A-Za-z0-9._-]+$
MatchesAllowSet(filename) ==
    /\ Len(filename) > 0
    /\ \A i \in 1..Len(filename) :
          IsDigit(filename[i]) \/ filename[i] \in {"a", "A", "z", "p", "k", ".", "_", "-"}

\* C10: every download request that reaches download_apk with a filename
\* failing the filename validation is answered with 400, never with 500 or 404.
C10_InvalidFilenameIs400 ==
    (/\ request.endpoint = "/api/download"
     /\ Routed(request.filename)
     /\ ~MatchesAllowSet(request.filename)
     /\ ~FilenameCheck(request.filename))
    => response.status = 400

IsDownload == request.endpoint = "/api/download"

\* download_apk went past its filename check: it asked the filesystem
PassedFilenameCheck == fs_ops # <<>>

\* C11: the download filename check accepts a name exactly when it is
\* non-empty and made only of A-Z, a-z, 0-9, '.', '_' and '-': names of dots,
\* dashes and underscores alone pass, names with any other character (non-ASCII
\* letters and digits included) are rejected.
C11_FilenameCheckIsAllowSet ==
    (IsDownload /\ Routed(request.filename))
    => (PassedFilenameCheck <=> MatchesAllowSet(request.filename))

HasSeparator(filename) ==
    \E i \in 1..Len(filename) : filename[i] \in {"/", "\\"}

\* path names one entry directly inside CONFIG['apk_dir']
DirectChild(path) ==
    LET parts == Split(path, "/")
        dir   == Split(CONFIG.apk_dir, "/")
    IN  /\ Len(parts) = Len(dir) + 1
        /\ SubSeq(parts, 1, Len(dir)) = dir
        /\ parts[Len(parts)] \notin {<<>>, <<".">>, <<".", ".">>}
        /\ ~HasSeparator(parts[Len(parts)])

\* C12: for every requested filename with a path separator or rejected by the
\* filename check of download_apk no file-existence check and no file read is
\* made, and every path a download request asks the filesystem about is a
\* direct child of the APK directory.
C12_NoPathTraversal ==
    IsDownload =>
        /\ (\/ HasSeparator(request.filename)
            \/ ~Routed(request.filename)
            \/ ~FilenameCheck(request.filename)) => fs_ops = <<>>
        /\ \A i \in 1..Len(fs_ops) : DirectChild(fs_ops[i].path)

\* a name with a separator was requested and answered without any
\* filesystem call
C12_Witness ==
    /\ IsDownload
    /\ HasSeparator(request.filename)
    /\ response.status >= 400
    /\ fs_ops = <<>>

(***************************************************************************)
(* SpecLookup: get_version_config applied to every kind of key.            *)
(***************************************************************************)
UnknownCohort == <<"u", "n", "k", "n", "o", "w", "n">>

LookupKeys == VersionTexts \cup {KeyDefault, UnknownCohort}

\* the catalogs of Init
Catalogs ==
    {(Key100 :> ReleaseEntry(TripleText(1, 1, 0, 0), FALSE))
        @@ (KeyDefault :> ReleaseEntry(latest, forced)) :
        latest \in ReleaseVersions, forced \in BOOLEAN}

InitLookup ==
    /\ v1 \in LookupKeys
    /\ v2 = <<>>
    /\ v3 = <<>>
    /\ fn = "none"
    /\ out = 0
    /\ VERSION_CONFIG \in Catalogs
    /\ CONFIG = DefaultConfig
    /\ apk_dir = {}
    /\ fs_ops = <<>>
    /\ request = NoRequest
    /\ response = NoResponse
    /\ IdleTool

\* config = get_version_config(current_version)
GetVersionConfig ==
    /\ fn = "none"
    /\ fn' = "get_version_config"
    /\ out' = get_version_config(VERSION_CONFIG, v1)
    /\ UNCHANGED <<v1, v2, v3, httpVars, toolVars>>

\* the same call for the key 'default': what lookup("default") returns
GetDefaultConfig ==
    /\ fn = "get_version_config"
    /\ fn' = "get_version_config(default)"
    /\ out' = <<out, get_version_config(VERSION_CONFIG, KeyDefault)>>
    /\ UNCHANGED <<v1, v2, v3, httpVars, toolVars>>

NextLookup ==
    \/ GetVersionConfig
    \/ GetDefaultConfig

SpecLookup == InitLookup /\ [][NextLookup]_vars

\* C13: get_version_config(k) never fails: it returns the entry registered
\* for k when there is one and the 'default' entry otherwise, for every key,
\* unknown, empty and malformed keys included; an unknown cohort gets the
\* descriptor lookup("default") returns.
C13_LookupNeverFails ==
    /\ fn = "get_version_config" =>
          /\ out.ok
          /\ out.val = LookedUp(v1)
    /\ (fn = "get_version_config(default)" /\ v1 \notin DOMAIN VERSION_CONFIG)
          => /\ out[1].ok
             /\ out[1] = out[2]

\* a registered key answered with its own entry, not the default one
C13_Witness ==
    /\ fn = "get_version_config"
    /\ v1 = Key100
    /\ out.ok
    /\ out.val = VERSION_CONFIG[Key100]
    /\ out.val # VERSION_CONFIG[KeyDefault]

(***************************************************************************)
(* Properties of check_version (Spec).                                     *)
(***************************************************************************)
\* the version the check is made for: the header, or '1.0.0' without one
CheckedVersion == IF SentVersion.present THEN SentVersion.value ELSE Key100

BaseFields == {"current_version", "latest_version", "has_update"}

\* C14: the forced flag is has_update AND release.forced: no forced update is
\* reported when has_update is false, and with has_update true the reported
\* is_forced is the is_forced of the catalog entry looked up, whatever the
\* size of the version jump.
C14_ForcedIsReleaseForced ==
    (IsVersionCheck /\ response.status = 200) =>
        /\ ~response.body.has_update => "is_forced" \notin DOMAIN response.body
        /\ response.body.has_update =>
              response.body.is_forced = LookedUp(CheckedVersion).is_forced

\* an update that is not forced although the major version changes, or a
\* forced one within the same major version
C14_Witness ==
    /\ IsVersionCheck /\ response.status = 200
    /\ response.body.has_update
    /\ response.body.is_forced
          # (version_tuple(response.body.latest_version).val[1]
                > version_tuple(CheckedVersion).val[1])

\* C15 as claimed: the response has exactly the fields {currentVersion,
\* latestVersion, hasUpdate} when hasUpdate is false and exactly those plus
\* {downloadUrl, downloadSize, releaseNotes, forced, releaseTimestamp} when it
\* is true; latestVersion is the version of the entry looked up.
C15_FieldsAsClaimed ==
    (IsVersionCheck /\ response.status = 200) =>
        /\ DOMAIN response.body =
              IF response.body.has_update
              THEN BaseFields \cup {"download_url", "download_size",
                                    "release_notes", "is_forced", "release_date"}
              ELSE BaseFields
        /\ response.body.latest_version = LookedUp(CheckedVersion).latest_version

\* C15 amended: exactly {current_version, latest_version, has_update} when
\* has_update is false and exactly those plus {download_url, download_size,
\* release_notes, is_forced, update_type, release_date} when it is true;
\* latest_version is the version of the entry looked up.
C15_FieldsWithUpdateType ==
    (IsVersionCheck /\ response.status = 200) =>
        /\ DOMAIN response.body =
              IF response.body.has_update
              THEN BaseFields \cup {"download_url", "download_size", "release_notes",
                                    "is_forced", "update_type", "release_date"}
              ELSE BaseFields
        /\ response.body.latest_version = LookedUp(CheckedVersion).latest_version

\* one response without an update (three fields) ...
C15_Witness ==
    /\ IsVersionCheck /\ response.status = 200
    /\ ~response.body.has_update
    /\ DOMAIN response.body = BaseFields
    /\ SentVersion.present /\ HasBuild(SentVersion.value)

\* C16: the answer to a version check does not depend on the Platform and
\* Current-Build headers: with the same Current-Version and catalog, any
\* other values of the two headers get the same payload and status.
C16_PlatformIsNotRead ==
    IsVersionCheck =>
        \A h \in LoggedHeaders :
            response = check_version(VERSION_CONFIG,
                                     [request.headers EXCEPT
                                         !.platform = h.platform,
                                         !.current_build = h.current_build])

\* an update offered to a client that sent Platform: ios
C16_Witness ==
    /\ IsVersionCheck
    /\ request.headers.platform = Some("ios")
    /\ response.status = 200
    /\ response.body.has_update

\* C18: a version check without Current-Version header is handled as one with
\* Current-Version: 1.0.0: the entry of key '1.0.0' is used, the payload is the
\* same and current_version is reported as '1.0.0'.
C18_AbsentVersionIs100 ==
    (IsVersionCheck /\ ~SentVersion.present) =>
        /\ response = check_version(VERSION_CONFIG,
                          [request.headers EXCEPT !.current_version = Some(Key100)])
        /\ response.status = 200
        /\ response.body.current_version = Key100
        /\ response.body.latest_version = VERSION_CONFIG[Key100].latest_version

\* no header sent, and the '1.0.0' entry (not the default one) was offered
C18_Witness ==
    /\ IsVersionCheck /\ ~SentVersion.present
    /\ response.body.has_update
    /\ response.body.latest_version # VERSION_CONFIG[KeyDefault].latest_version

(***************************************************************************)
(* Properties of download_apk (Spec).                                      *)
(***************************************************************************)
\* the name with '.apk' at its end, appended unless already there
WithApk(filename) ==
    IF Len(filename) >= 4
       /\ <<filename[Len(filename) - 3], filename[Len(filename) - 2],
            filename[Len(filename) - 1], filename[Len(filename)]>> = DotApk
    THEN filename
    ELSE filename \o DotApk

\* the request passes the filename check of download_apk
ValidDownload ==
    IsDownload /\ Routed(request.filename) /\ FilenameCheck(request.filename)

\* C19: a download of a valid filename whose resolved path does not exist in
\* the APK directory is answered with 404, not 500 and not a file; existence
\* is checked for the name after extension normalization.
C19_MissingFileIs404 ==
    (ValidDownload /\ WithApk(request.filename) \notin apk_dir) =>
        /\ response.status = 404
        /\ fs_ops = <<[op   |-> "exists",
                       path |-> CONFIG.apk_dir \o <<"/">> \o WithApk(request.filename)]>>

\* a name without '.apk' whose normalized name is not in the directory
C19_Witness ==
    /\ ValidDownload
    /\ ~EndsWithApk(request.filename)
    /\ apk_dir # {}
    /\ response.status = 404

\* C20: a valid filename not ending in '.apk' gets '.apk' appended before the
\* lookup, one ending in '.apk' is looked up unchanged, normalizing twice is
\* normalizing once, and the attachment name is the normalized name.
C20_ExtensionNormalization ==
    ValidDownload =>
        /\ fs_ops[1].path = CONFIG.apk_dir \o <<"/">> \o WithApk(request.filename)
        /\ NormalizeApk(NormalizeApk(request.filename)) = NormalizeApk(request.filename)
        /\ response.status = 200 =>
              /\ response.body.download_name = WithApk(request.filename)
              /\ response.body.file = WithApk(request.filename)

\* 'a' requested and 'a.apk' served
C20_Witness ==
    /\ ValidDownload
    /\ ~EndsWithApk(request.filename)
    /\ response.status = 200
    /\ response.body.download_name = request.filename \o DotApk

(***************************************************************************)
(* SpecConc: the server handling requests in several threads at once       *)
(* (app.run serves each request in a thread of its own).  A request is     *)
(* accepted, its handler runs while other threads accept and answer, and   *)
(* the connection is closed.  request and response are indexed by thread;  *)
(* the file operations of the threads are not recorded here.               *)
(***************************************************************************)
NumThreads == 2

Threads == 1..NumThreads

ConcReleases == {TripleText(1, 1, 0, 0), TripleText(1, 0, 0, 0) \o <<"+", "1">>}

ConcRequests ==
    {[endpoint |-> "/api/version",
      headers  |-> [current_version |-> cv,
                    current_build   |-> None,
                    platform        |-> None]] :
        cv \in {None, Some(Key100), Some(TripleText(1, 1, 0, 0)), Some(<<"a">>)}}
    \cup {[endpoint |-> "/api/download", filename |-> f] :
             f \in {<<"a">>, <<".">>, <<"a", "/">>}}
    \cup {[endpoint |-> "/api/stats"], [endpoint |-> "/health"]}

\* the view function the URL map dispatches a request to, run at instant now
Dispatch(cfg, files, req, now) ==
    CASE req.endpoint = "/api/version"  -> check_version(cfg, req.headers)
      [] req.endpoint = "/api/download" -> IF Routed(req.filename)
                                           THEN download_apk(files, req.filename)
                                           ELSE NotFoundResponse
      [] req.endpoint = "/api/stats"    -> get_stats(cfg, files, now)
      [] req.endpoint = "/health"       -> health_check(now)

InitConc ==
    /\ v1 = <<>> /\ v2 = <<>> /\ v3 = <<>>
    /\ fn = "none"
    /\ out = 0
    /\ \E latest \in ConcReleases, forced \in BOOLEAN :
          VERSION_CONFIG =
              (Key100 :> ReleaseEntry(TripleText(1, 1, 0, 0), FALSE))
              @@ (KeyDefault :> ReleaseEntry(latest, forced))
    /\ CONFIG = DefaultConfig
    /\ apk_dir \in ApkStores
    /\ fs_ops = <<>>
    /\ request = [t \in Threads |-> NoRequest]
    /\ response = [t \in Threads |-> NoResponse]
    /\ IdleTool

\* thread t accepts a request
Accept(t) ==
    \E req \in ConcRequests :
        /\ request[t] = NoRequest
        /\ request' = [request EXCEPT ![t] = req]
        /\ UNCHANGED <<pureVars, toolVars, VERSION_CONFIG, CONFIG, apk_dir, fs_ops, response>>

\* a handler that records the entry it served as the new 'default' entry
Respond_caching(t) ==
    \E now \in 0..MaxClock :
        /\ request[t] # NoRequest
        /\ response[t] = NoResponse
        /\ response' = [response EXCEPT
                           ![t] = Dispatch(VERSION_CONFIG, apk_dir, request[t], now)]
        /\ VERSION_CONFIG' = [VERSION_CONFIG EXCEPT ![KeyDefault] = VERSION_CONFIG[Key100]]
        /\ UNCHANGED <<pureVars, toolVars, CONFIG, apk_dir, fs_ops, request>>

\* the handler of thread t runs and returns its response
Respond(t) ==
    \E now \in 0..MaxClock :
        /\ request[t] # NoRequest
        /\ response[t] = NoResponse
        /\ response' = [response EXCEPT
                           ![t] = Dispatch(VERSION_CONFIG, apk_dir, request[t], now)]
        /\ UNCHANGED <<pureVars, toolVars, VERSION_CONFIG, CONFIG, apk_dir, fs_ops, request>>

\* the response of thread t has been sent
Close(t) ==
    /\ response[t] # NoResponse
    /\ request' = [request EXCEPT ![t] = NoRequest]
    /\ response' = [response EXCEPT ![t] = NoResponse]
    /\ UNCHANGED <<pureVars, toolVars, VERSION_CONFIG, CONFIG, apk_dir, fs_ops>>

NextConc ==
    \/ \E t \in Threads : Accept(t)
    \/ \E t \in Threads : Respond(t)
    \/ \E t \in Threads : Close(t)

SpecConc == InitConc /\ [][NextConc]_vars

\* the catalog and configuration the module is loaded with
StartupCatalogs ==
    {(Key100 :> ReleaseEntry(TripleText(1, 1, 0, 0), FALSE))
     @@ (KeyDefault :> ReleaseEntry(latest, forced)) :
        latest \in ConcReleases, forced \in BOOLEAN}

\* C17: handling requests mutates no server state: in every interleaving of
\* version checks, downloads, stats and health requests, answered 200 or not,
\* no step changes VERSION_CONFIG or CONFIG (they stay a startup value), and
\* every response is the one the request gets when it is handled alone.
C17_NoStateMutation ==
    /\ [][VERSION_CONFIG' = VERSION_CONFIG /\ CONFIG' = CONFIG]_vars
    /\ [](/\ VERSION_CONFIG \in StartupCatalogs
          /\ CONFIG = DefaultConfig
          /\ \A t \in Threads :
                response[t] # NoResponse =>
                    \E now \in 0..MaxClock :
                        response[t] = Dispatch(VERSION_CONFIG, apk_dir, request[t], now))

\* a failed download answered in one thread while another thread has
\* answered a version check with an update
C17_Witness ==
    /\ request[1].endpoint = "/api/download" /\ response[1].status = 500
    /\ request[2].endpoint = "/api/version"
    /\ response[2].status = 200 /\ response[2].body.has_update

(***************************************************************************)
(* SpecStartup: update_server.py started with a catalog that was edited    *)
(* ('Update this when releasing new versions'), with or without its        *)
(* 'default' entry.  main() prints, creates the APK directory and calls    *)
(* app.run; it does not look at VERSION_CONFIG, so the server serves the   *)
(* requests of Next whatever the catalog is.                               *)
(***************************************************************************)
EditedCatalogs ==
    {(Key100 :> ReleaseEntry(TripleText(1, 1, 0, 0), FALSE))
     @@ (KeyDefault :> ReleaseEntry(TripleText(1, 1, 0, 0), FALSE)),
     (Key100 :> ReleaseEntry(TripleText(1, 1, 0, 0), FALSE)),
     <<>>}

InitStartup ==
    /\ v1 = <<>> /\ v2 = <<>> /\ v3 = <<>>
    /\ fn = "none"
    /\ out = 0
    /\ VERSION_CONFIG \in EditedCatalogs
    /\ CONFIG = DefaultConfig
    /\ apk_dir \in ApkStores
    /\ fs_ops = <<>>
    /\ request = NoRequest
    /\ response = NoResponse
    /\ IdleTool

SpecStartup == InitStartup /\ [][Next]_vars

RECURSIVE old_compare_from(_, _, _)
old_compare_from(v1_parts, v2_parts, i) ==
    LET max_length == IF Len(v1_parts) > Len(v2_parts) THEN Len(v1_parts)
                      ELSE Len(v2_parts)
        a == IF i <= Len(v1_parts) THEN v1_parts[i] ELSE 0
        b == IF i <= Len(v2_parts) THEN v2_parts[i] ELSE 0
    IN  IF i > max_length THEN 0
        ELSE IF a < b THEN -1
        ELSE IF a > b THEN 1
        ELSE old_compare_from(v1_parts, v2_parts, i + 1)

\* the comparator that cuts the build off before int(), as the fixed app does
old_compare_versions_build_cut(version1, version2) ==
    LET v1_parts == IntList(Split(Split(version1, "+")[1], "."))
        v2_parts == IntList(Split(Split(version2, "+")[1], "."))
    IN  IF ~v1_parts.ok \/ ~v2_parts.ok
        THEN ValueError
        ELSE Ok(old_compare_from(v1_parts.val, v2_parts.val, 1))

\* old_compare_versions: int() of every dot-separated part; the ValueError is
\* printed and raised again
old_compare_versions(version1, version2) ==
    LET v1_parts == IntList(Split(version1, "."))
        v2_parts == IntList(Split(version2, "."))
    IN  IF ~v1_parts.ok \/ ~v2_parts.ok
        THEN ValueError
        ELSE Ok(old_compare_from(v1_parts.val, v2_parts.val, 1))

SimLatestVersion == <<"1", ".", "0", ".", "5", "+", "6">>   \* "1.0.5+6"

SimCurrentVersion == <<"1", ".", "0", ".", "3", "+", "4">>  \* "1.0.3+4"

\* simulate_old_version_comparison(): False when the comparison raises
simulate_old_version_comparison ==
    old_compare_versions(SimLatestVersion, SimCurrentVersion).ok

\* the texts handed to the legacy comparator: versions with and without
\* build, shorter and longer dotted numbers, and texts int() has to judge
LegacyTexts ==
    PlainVersions
    \cup Prefixes(TripleText(1, 1, 0, 0))
    \cup {Append(TripleText(1, 0, 1, 0), ch) : ch \in JunkChars}
    \cup {<<ch>> \o TripleText(1, 0, 1, 0) : ch \in JunkChars}
    \cup {<<"1", "_", "0", ".", "0">>, <<"1", ".", "0", ".", "0", ".", "1">>}

InitOld ==
    /\ v1 \in LegacyTexts
    /\ v2 \in LegacyTexts
    /\ v3 = <<>>
    /\ fn = "none"
    /\ out = 0
    /\ IdleHttp
    /\ IdleTool

\* result = old_compare_versions(version1, version2)
OldCompare ==
    /\ fn = "none"
    /\ fn' = "old_compare_versions"
    /\ out' = old_compare_versions(v1, v2)
    /\ UNCHANGED <<v1, v2, v3, httpVars, toolVars>>

\* simulate_old_version_comparison()
SimulateOld ==
    /\ fn = "none"
    /\ fn' = "simulate_old_version_comparison"
    /\ out' = simulate_old_version_comparison
    /\ UNCHANGED <<v1, v2, v3, httpVars, toolVars>>

NextOld ==
    \/ OldCompare
    \/ SimulateOld

SpecOld == InitOld /\ [][NextOld]_vars

\* c is the text of an integer: digits, with single '_' between them, after
\* an optional sign, inside optional whitespace
IsIntegerText(c) ==
    LET t == Strip(c)
        d == IF t # <<>> /\ t[1] \in {"+", "-"} THEN Tail(t) ELSE t
    IN  /\ d # <<>>
        /\ \A i \in 1..Len(d) :
              \/ IsDigit(d[i])
              \/ d[i] = "_" /\ 1 < i /\ i < Len(d)
                            /\ IsDigit(d[i - 1]) /\ IsDigit(d[i + 1])

AllIntegerParts(s) ==
    \A i \in 1..Len(Split(s, ".")) : IsIntegerText(Split(s, ".")[i])

\* s is digits separated by dots, such as 1.1.0 or 1.0
NumericDotted(s) ==
    \A i \in 1..Len(Split(s, ".")) : IsDigitRun(Split(s, ".")[i])

\* the i-th number of a numeric dotted text, 0 past its end
PartOr0(s, i) ==
    IF i <= Len(Split(s, ".")) THEN DigitsValue(Split(s, ".")[i], 0) ELSE 0

\* the component-wise order of two numeric dotted texts
DottedOrder(s, t) ==
    LET n == Len(Split(s, ".")) + Len(Split(t, "."))
        differ == {i \in 1..n : PartOr0(s, i) # PartOr0(t, i)}
        first == CHOOSE i \in differ : \A j \in differ : i <= j
    IN  IF differ = {} THEN 0
        ELSE IF PartOr0(s, first) < PartOr0(t, first) THEN -1 ELSE 1

\* C25: old_compare_versions raises exactly when a dot-separated part of one
\* of its arguments is not an integer, so whenever an argument has a +build
\* (the simulated check of 1.0.5+6 against 1.0.3+4 returns False); on numeric
\* dotted versions it returns the component-wise order, a missing part as 0.
C25_LegacyRaisesOnBuild ==
    /\ fn = "old_compare_versions" =>
          /\ ~out.ok <=> (~AllIntegerParts(v1) \/ ~AllIntegerParts(v2))
          /\ ((IsVersionText(v1) /\ HasBuild(v1)) \/ (IsVersionText(v2) /\ HasBuild(v2)))
                => ~out.ok
          /\ (NumericDotted(v1) /\ NumericDotted(v2))
                => out.ok /\ out.val = DottedOrder(v1, v2)
    /\ fn = "simulate_old_version_comparison" => out = FALSE

\* a version with build made the comparison raise against a plain version
C25_Witness ==
    /\ fn = "old_compare_versions"
    /\ IsVersionText(v1) /\ HasBuild(v1)
    /\ NumericDotted(v2)
    /\ ~out.ok

(***************************************************************************)
(* SpecAgree: the three build-aware comparators applied to every pair of   *)
(* texts, well-formed or not.                                              *)
(***************************************************************************)
AgreeTexts ==
    LegacyTexts
    \cup {TripleText(1, 0, 1, 0) \o t :
             t \in {<<"+", "x">>, <<"+">>, <<"+", "1", "+", "1">>, <<"+", " ", "1">>}}
    \cup {<<"1", ".", "0", "+", "1">>}

InitAgree ==
    /\ v1 \in AgreeTexts
    /\ v2 \in AgreeTexts
    /\ v3 = <<>>
    /\ fn = "none"
    /\ out = 0
    /\ IdleHttp
    /\ IdleTool

NextAgree ==
    \/ TvcCompare
    \/ FlutterCompare
    \/ TusCompare

SpecAgree == InitAgree /\ [][NextAgree]_vars

\* C30: on every pair of texts (c, l), valid or malformed,
\* compare_versions_flutter_style(c, l) = test_update_simple.compare_versions(c, l)
\* = (test_version_comparison.compare_versions(c, l) < 0), and each returns a
\* value (a bool, resp. -1, 0 or 1) instead of raising.
C30_ComparatorsAgree ==
    /\ fn = "compare_versions_flutter_style" =>
          /\ out \in BOOLEAN
          /\ out = tus_compare_versions(v1, v2)
          /\ out = (tvc_compare_versions(v1, v2) < 0)
    /\ fn = "tus_compare_versions" =>
          /\ out \in BOOLEAN
          /\ out = compare_versions_flutter_style(v1, v2)
          /\ out = (tvc_compare_versions(v1, v2) < 0)
    /\ fn = "tvc_compare_versions" =>
          /\ out \in {-1, 0, 1}
          /\ (out < 0) = compare_versions_flutter_style(v1, v2)
          /\ (out < 0) = tus_compare_versions(v1, v2)

\* a text that is no version (too few parts) found older than a version with
\* a build by test_update_simple.compare_versions
C30_Witness ==
    /\ fn = "tus_compare_versions"
    /\ ~IsVersionText(v1)
    /\ IsVersionText(v2) /\ HasBuild(v2)
    /\ out = TRUE

(***************************************************************************)
(* scripts/update_version.py and scripts/simple_release.py:                *)
(* increment_version, on the version text read from pubspec.yaml.          *)
(***************************************************************************)
Major == <<"m", "a", "j", "o", "r">>

Minor == <<"m", "i", "n", "o", "r">>

Patch == <<"p", "a", "t", "c", "h">>

Build == <<"b", "u", "i", "l", "d">>

IncrementTypes == {Major, Minor, Patch, Build}

\* the increment that leaves the build alone unless 'build' is asked for
increment_version_keep_build(current_version_str, increment_type) ==
    LET version == parse_version(current_version_str)
        v       == version.val
    IN  IF ~version.ok THEN ValueError
        ELSE IF increment_type = Major
        THEN Ok(format_version([major |-> v.major + 1, minor |-> 0, patch |-> 0,
                                build |-> v.build]))
        ELSE IF increment_type = Minor
        THEN Ok(format_version([major |-> v.major, minor |-> v.minor + 1, patch |-> 0,
                                build |-> v.build]))
        ELSE IF increment_type = Patch
        THEN Ok(format_version([major |-> v.major, minor |-> v.minor,
                                patch |-> v.patch + 1, build |-> v.build]))
        ELSE IF increment_type = Build
        THEN Ok(format_version([major |-> v.major, minor |-> v.minor,
                                patch |-> v.patch, build |-> v.build + 1]))
        ELSE ValueError

\* the increment whose 'build' branch forgets version['build'] += 1
increment_version_build_noop(current_version_str, increment_type) ==
    LET version == parse_version(current_version_str)
        v       == version.val
    IN  IF ~version.ok THEN ValueError
        ELSE IF increment_type = Major
        THEN Ok(format_version([major |-> v.major + 1, minor |-> 0, patch |-> 0,
                                build |-> v.build + 1]))
        ELSE IF increment_type = Minor
        THEN Ok(format_version([major |-> v.major, minor |-> v.minor + 1, patch |-> 0,
                                build |-> v.build + 1]))
        ELSE IF increment_type = Patch
        THEN Ok(format_version([major |-> v.major, minor |-> v.minor,
                                patch |-> v.patch + 1, build |-> v.build + 1]))
        ELSE IF increment_type = Build
        THEN Ok(format_version(v))
        ELSE ValueError

\* update_version.py: increment_version, given what read_current_version()
\* returned
increment_version(current_version_str, increment_type) ==
    LET version == parse_version(current_version_str)
        v       == version.val
    IN  IF ~version.ok THEN ValueError          \* parse_version raises
        ELSE IF increment_type = Major
        THEN Ok(format_version([major |-> v.major + 1, minor |-> 0, patch |-> 0,
                                build |-> v.build + 1]))
        ELSE IF increment_type = Minor
        THEN Ok(format_version([major |-> v.major, minor |-> v.minor + 1, patch |-> 0,
                                build |-> v.build + 1]))
        ELSE IF increment_type = Patch
        THEN Ok(format_version([major |-> v.major, minor |-> v.minor,
                                patch |-> v.patch + 1, build |-> v.build + 1]))
        ELSE IF increment_type = Build
        THEN Ok(format_version([major |-> v.major, minor |-> v.minor,
                                patch |-> v.patch, build |-> v.build + 1]))
        ELSE ValueError                         \* Invalid increment type

\* simple_release.py: SimpleReleaseManager.increment_version, given what
\* get_current_version() returned
sr_increment_version(current_version_str, increment_type) ==
    LET version == parse_version(current_version_str)
        v       == version.val
    IN  IF ~version.ok THEN ValueError
        ELSE IF increment_type = Major
        THEN Ok(format_version([major |-> v.major + 1, minor |-> 0, patch |-> 0,
                                build |-> v.build + 1]))
        ELSE IF increment_type = Minor
        THEN Ok(format_version([major |-> v.major, minor |-> v.minor + 1, patch |-> 0,
                                build |-> v.build + 1]))
        ELSE IF increment_type = Patch
        THEN Ok(format_version([major |-> v.major, minor |-> v.minor,
                                patch |-> v.patch + 1, build |-> v.build + 1]))
        ELSE IF increment_type = Build
        THEN Ok(format_version([major |-> v.major, minor |-> v.minor,
                                patch |-> v.patch, build |-> v.build + 1]))
        ELSE ValueError

(***************************************************************************)
(* SpecInc: increment_version of both scripts on every current version and *)
(* increment type.                                                         *)
(***************************************************************************)
\* what the command line can carry besides the four types
OtherTypes == {<<>>, <<"M", "a", "j", "o", "r">>, <<"s", "e", "t">>, <<"b", "u", "i", "l", "d", "s">>}

InitInc ==
    /\ v1 \in VersionTexts
    /\ v2 \in IncrementTypes \cup OtherTypes
    /\ v3 = <<>>
    /\ fn = "none"
    /\ out = 0
    /\ IdleHttp
    /\ IdleTool

\* update_version.py: new_version = increment_version(command)
IncrementVersion ==
    /\ fn = "none"
    /\ fn' = "increment_version"
    /\ out' = increment_version(v1, v2)
    /\ UNCHANGED <<v1, v2, v3, httpVars, toolVars>>

\* simple_release.py: new_version = self.increment_version(increment_type)
SrIncrementVersion ==
    /\ fn = "none"
    /\ fn' = "sr_increment_version"
    /\ out' = sr_increment_version(v1, v2)
    /\ UNCHANGED <<v1, v2, v3, httpVars, toolVars>>

NextInc ==
    \/ IncrementVersion
    \/ SrIncrementVersion

SpecInc == InitInc /\ [][NextInc]_vars

\* the version M.m.p+b as text, every number without leading zeros
CanonicalText(M, m, p, b) ==
    Decimal(M) \o <<".">> \o Decimal(m) \o <<".">> \o Decimal(p) \o <<"+">> \o Decimal(b)

\* what an increment of type t makes of the version text s = M.m.p+b
Incremented(s, t) ==
    LET x == TripleOf(s)
        b == BuildOf(s)
    IN  CASE t = Major -> CanonicalText(x[1] + 1, 0, 0, b + 1)
          [] t = Minor -> CanonicalText(x[1], x[2] + 1, 0, b + 1)
          [] t = Patch -> CanonicalText(x[1], x[2], x[3] + 1, b + 1)
          [] t = Build -> CanonicalText(x[1], x[2], x[3], b + 1)

\* C23: from the current version M.m.p+b, increment_version gives
\* (M+1).0.0+(b+1) for 'major', M.(m+1).0+(b+1) for 'minor', M.m.(p+1)+(b+1)
\* for 'patch', M.m.p+(b+1) for 'build' and an error for any other type; the
\* build grows by exactly 1 for every type, and update_version.py and
\* simple_release.py give the same result on every input.
C23_IncrementRules ==
    fn \in {"increment_version", "sr_increment_version"} =>
        /\ IsBuildVersionText(v1) =>
              /\ v2 \in IncrementTypes =>
                    /\ out.ok
                    /\ out.val = Incremented(v1, v2)
                    /\ BuildOf(out.val) = BuildOf(v1) + 1
              /\ v2 \notin IncrementTypes => ~out.ok
        /\ out = increment_version(v1, v2)
        /\ out = sr_increment_version(v1, v2)

\* a minor increment by simple_release.py that took the build from one digit
\* to two and reset the patch
C23_Witness ==
    /\ fn = "sr_increment_version"
    /\ v2 = Minor
    /\ IsBuildVersionText(v1)
    /\ TripleOf(v1)[3] > 0
    /\ out.ok
    /\ TripleOf(out.val)[3] = 0
    /\ BuildOf(out.val) = MaxBuild + 10

(***************************************************************************)
(* SpecBump: update_version.py run again and again with an increment type  *)
(* and the prompt answered 'y': each run writes the version it computed    *)
(* to pubspec.yaml, where the next run reads it.  v1 is the version in     *)
(* pubspec.yaml and v3 the versions it has held, oldest first.             *)
(***************************************************************************)
MaxBumps == 3

InitBump ==
    /\ v1 \in {s \in VersionsPadded({0, MaxPad}) : HasBuild(s)}
    /\ v2 = <<>>
    /\ v3 = <<v1>>
    /\ fn = "none"
    /\ out = 0
    /\ IdleHttp
    /\ IdleTool

Bump ==
    \E increment_type \in IncrementTypes :
        /\ Len(v3) <= MaxBumps
        /\ increment_version(v1, increment_type).ok
        /\ fn' = "increment_version"
        /\ v2' = increment_type
        /\ out' = increment_version(v1, increment_type)
        /\ v1' = increment_version(v1, increment_type).val
        /\ v3' = Append(v3, increment_version(v1, increment_type).val)
        /\ UNCHANGED <<httpVars, toolVars>>

NextBump == Bump

SpecBump == InitBump /\ [][NextBump]_vars

\* C24: versions only move forward: from any valid M.m.p+b, after any
\* sequence of major/minor/patch/build increments every produced version is
\* strictly greater than each earlier one under
\* test_version_comparison.compare_versions, the client-side has-update check
\* is true from every earlier to every later version, and no version text is
\* produced twice.
\* v3 only grows at its end, so the newest version is compared with each
\* earlier one in every state.
C24_VersionsMoveForward ==
    LET j == Len(v3)
    IN  \A i \in 1..(j - 1) :
            /\ tvc_compare_versions(v3[i], v3[j]) = -1
            /\ tvc_compare_versions(v3[j], v3[i]) = 1
            /\ compare_versions_flutter_style(v3[i], v3[j])
            /\ v3[i] # v3[j]

\* a build increment after a major one: only the build tells the last two
\* versions apart
C24_Witness ==
    /\ Len(v3) = MaxBumps + 1
    /\ v2 = Build
    /\ TripleOf(v3[Len(v3)]) = TripleOf(v3[Len(v3) - 1])
    /\ TripleOf(v3[2])[1] = TripleOf(v3[1])[1] + 1

(***************************************************************************)
(* scripts/update_version.py: the command line tool on pubspec.yaml.       *)
(* pubspec.yaml is the sequence of its lines, a line being the text before *)
(* its first ':' (key, with its indentation) and the text after it (value).*)
(***************************************************************************)
UpperCase == <<"A", "B", "C", "D", "E", "F", "G", "H", "I", "J", "K", "L", "M",
               "N", "O", "P", "Q", "R", "S", "T", "U", "V", "W", "X", "Y", "Z">>

LowerCase == <<"a", "b", "c", "d", "e", "f", "g", "h", "i", "j", "k", "l", "m",
               "n", "o", "p", "q", "r", "s", "t", "u", "v", "w", "x", "y", "z">>

\* str.lower()
PyLower(s) ==
    [i \in 1..Len(s) |->
        IF \E k \in 1..26 : UpperCase[k] = s[i]
        THEN LowerCase[CHOOSE k \in 1..26 : UpperCase[k] = s[i]]
        ELSE s[i]]

FileNotFoundError == [ok |-> FALSE, val |-> "FileNotFoundError"]

\* a line '^version:\s*.+$' matches: 'version:' at column 0 and a value on
\* the same line
IsVersionLine(line) == line.key = "version" /\ Strip(line.value) # <<>>

\* read_current_version(): the first match of ^version:\s*(.+)$, stripped
read_current_version(file) ==
    IF ~file.exists
    THEN FileNotFoundError                      \* get_pubspec_path raises
    ELSE LET found == {i \in 1..Len(file.lines) : IsVersionLine(file.lines[i])}
             first == CHOOSE i \in found : \A j \in found : i <= j
         IN  IF found = {} THEN ValueError      \* Version not found
             ELSE Ok(Strip(file.lines[first].value))

\* the lines 'version: {new_version}' is written as: a newline inside
\* new_version ends the line and starts another
WrittenLines(new_version) ==
    LET pieces == Split(<<" ">> \o new_version, "\n")
    IN  [i \in 1..Len(pieces) |->
            IF i = 1 THEN [key |-> "version", value |-> pieces[1]]
            ELSE [key |-> "", value |-> pieces[i]]]

\* re.sub(r'^version:\s*.+$', f'version: {new_version}', content, flags=re.MULTILINE)
RECURSIVE SubVersionLines(_, _)
SubVersionLines(lines, new_version) ==
    IF lines = <<>> THEN <<>>
    ELSE (IF IsVersionLine(Head(lines)) THEN WrittenLines(new_version)
          ELSE <<Head(lines)>>)
         \o SubVersionLines(Tail(lines), new_version)

\* update_version_in_pubspec(new_version) on a pubspec.yaml that exists
update_version_in_pubspec(file, new_version) ==
    [exists |-> TRUE, lines |-> SubVersionLines(file.lines, new_version)]

\* set_specific_version(version_string), given what read_current_version()
\* returned
set_specific_version(current_version_str, version_string) ==
    IF ~current_version_str.ok THEN current_version_str
    ELSE IF ~parse_version(version_string).ok THEN ValueError
    ELSE Ok(version_string)

Current == <<"c", "u", "r", "r", "e", "n", "t">>

Set == <<"s", "e", "t">>

\* confirm = input(...).strip().lower(); confirm in ['y', 'yes']
Confirmed(answer) == PyLower(Strip(answer.value)) \in {<<"y">>, <<"y", "e", "s">>}

\* confirm, then update_version_in_pubspec(new_version); input() raises
\* EOFError when stdin is closed (answer = None)
confirm_and_update(file, new_version, answer) ==
    IF ~new_version.ok THEN [exit |-> 1, pubspec |-> file]
    ELSE IF ~answer.present THEN [exit |-> 1, pubspec |-> file]
    ELSE IF Confirmed(answer)
    THEN [exit |-> 0, pubspec |-> update_version_in_pubspec(file, new_version.val)]
    ELSE [exit |-> 0, pubspec |-> file]

\* main() of update_version.py with sys.argv[1:] = argv and the line typed at
\* the prompt: the exit status and pubspec.yaml afterwards
uv_main(file, argv, answer) ==
    IF Len(argv) < 1 THEN [exit |-> 1, pubspec |-> file]
    ELSE LET command == PyLower(argv[1])
             current == read_current_version(file)
         IN  IF command = Current
             THEN [exit |-> IF current.ok THEN 0 ELSE 1, pubspec |-> file]
             ELSE IF command \in IncrementTypes
             THEN confirm_and_update(
                      file,
                      IF current.ok THEN increment_version(current.val, command)
                      ELSE current,
                      answer)
             ELSE IF command = Set
             THEN IF Len(argv) < 2 THEN [exit |-> 1, pubspec |-> file]
                  ELSE confirm_and_update(
                           file, set_specific_version(current, argv[2]), answer)
             ELSE [exit |-> 1, pubspec |-> file]

(***************************************************************************)
(* SpecTool: one run of update_version.py in a project.                    *)
(***************************************************************************)
\* the versions found in pubspec.yaml: with build, with a two-digit roll-over
\* ahead, without build, with leading zeros
ToolVersions ==
    {<<"1", ".", "0", ".", "3", "+", "4">>,
     <<"1", ".", "9", ".", "9", "+", "9">>,
     <<"1", ".", "0", ".", "3">>,
     <<"0", "1", ".", "0", ".", "3", "+", "0", "4">>}

NameLine == [key |-> "name", value |-> <<" ", "c", "g", "5", "0", "0">>]

\* the version constraint of a dependency: indented, so no '^version:' line
DependencyLine == [key |-> "    version", value |-> <<" ", "1", ".", "0", ".", "0", "+", "1">>]

PubspecOf(version) ==
    [exists |-> TRUE,
     lines  |-> <<NameLine, [key |-> "version", value |-> <<" ">> \o version], DependencyLine>>]

Pubspecs ==
    {PubspecOf(v) : v \in ToolVersions}
    \cup {[exists |-> TRUE, lines |-> <<NameLine, DependencyLine>>], NoFile}

\* the versions given to 'set'
SetVersions ==
    {<<"1", ".", "2", ".", "3", "+", "4">>,
     <<"1", ".", "2", ".", "3">>,
     <<"1", ".", "2", ".", "3", "+", "4", "\n">>,
     <<"v", "1", ".", "2", ".", "3", "+", "4">>,
     <<"1", ".", "0", ".", "3", "+", "4">>}

Argvs ==
    {<<>>, <<Current>>, <<Set>>, <<<<"P", "a", "t", "c", "h">>>>, <<<<"b", "u", "m", "p">>>>}
    \cup {<<t>> : t \in IncrementTypes}
    \cup {<<Set, v>> : v \in SetVersions}

\* the line typed at 'Update pubspec.yaml? (y/N): ', or stdin closed
Answers ==
    {Some(a) : a \in {<<"y">>, <<"y", "e", "s">>, <<" ", "Y">>, <<"n">>, <<>>,
                      <<"y", "e", "s", "s">>}}
    \cup {None}

InitTool ==
    /\ v1 = <<>> /\ v2 = <<>> /\ v3 = <<>>
    /\ fn = "none"
    /\ out = 0
    /\ IdleHttp
    /\ pubspec \in Pubspecs
    /\ rel = NoRelease

\* python update_version.py argv...; v1 keeps argv, v2 the answer, out the
\* exit status
UvMain ==
    \E argv \in Argvs, answer \in Answers :
        /\ fn = "none"
        /\ fn' = "main"
        /\ v1' = argv
        /\ v2' = answer
        /\ out' = uv_main(pubspec, argv, answer).exit
        /\ pubspec' = uv_main(pubspec, argv, answer).pubspec
        /\ UNCHANGED <<v3, httpVars, rel>>

NextTool == UvMain

SpecTool == InitTool /\ [][NextTool]_vars

\* the answers that are 'y' or 'yes', in any case and spacing
Affirmative(answer) ==
    answer \in {Some(<<"y">>), Some(<<"y", "e", "s">>), Some(<<" ", "Y">>)}

\* the run computes a valid new version: an increment of a current version
\* M.m.p+b, or 'set' with a version of the form M.m.p+b
ComputesValidVersion(file, argv) ==
    /\ Len(argv) >= 1
    /\ read_current_version(file).ok
    /\ \/ /\ PyLower(argv[1]) \in IncrementTypes
          /\ IsBuildVersionText(read_current_version(file).val)
       \/ /\ PyLower(argv[1]) = Set
          /\ Len(argv) >= 2
          /\ IsBuildVersionText(argv[2])

\* g is f with nothing but its 'version:' line changed
OnlyVersionLineChanged(f, g) ==
    /\ g.exists = f.exists
    /\ Len(g.lines) = Len(f.lines)
    /\ \A i \in 1..Len(f.lines) :
          g.lines[i] # f.lines[i] => f.lines[i].key = "version" /\ g.lines[i].key = "version"

\* C26: update_version.py writes pubspec.yaml only after it has computed a
\* valid new version and the user has answered 'y' or 'yes': 'set' with a
\* version not of the form M.m.p+b, an unknown command, 'current' and any
\* other answer leave the file unchanged; when it is written, only the
\* 'version:' line changes.
C26_WrittenOnlyWhenValidAndConfirmed ==
    [][(fn = "none" /\ fn' = "main" /\ pubspec' # pubspec) =>
          /\ ComputesValidVersion(pubspec, v1')
          /\ Affirmative(v2')
          /\ OnlyVersionLineChanged(pubspec, pubspec')]_vars

(***************************************************************************)
(* scripts/simple_release.py and scripts/github_release.py: release().     *)
(* rel.pc is the step release() is about to run, rel.log the steps run so  *)
(* far with their outcome; git, flutter and gh succeed or fail as they     *)
(* please.                                                                 *)
(***************************************************************************)
\* get_current_version(): the first line that starts with 'version:',
\* the text after the colon stripped
get_current_version(file) ==
    IF ~file.exists
    THEN FileNotFoundError
    ELSE LET found == {i \in 1..Len(file.lines) : file.lines[i].key = "version"}
             first == CHOOSE i \in found : \A j \in found : i <= j
         IN  IF found = {} THEN ValueError
             ELSE Ok(Strip(file.lines[first].value))

\* SimpleReleaseManager.update_version_in_pubspec
sr_update_version_in_pubspec(file, new_version) ==
    [exists |-> TRUE, lines |-> SubVersionLines(file.lines, new_version)]

\* SimpleReleaseManager.update_version: the new version and pubspec.yaml
\* afterwards
sr_update_version(file, increment_type) ==
    LET current     == get_current_version(file)
        new_version == IF current.ok
                       THEN sr_increment_version(current.val, increment_type)
                       ELSE current
    IN  IF ~new_version.ok
        THEN [new_version |-> new_version, pubspec |-> file]
        ELSE [new_version |-> new_version,
              pubspec     |-> sr_update_version_in_pubspec(file, new_version.val)]

RuntimeError == [ok |-> FALSE, val |-> "RuntimeError"]

\* GitHubReleaseManager.update_version: update_version.py run with the
\* increment type and 'y' on its stdin, then the version read back
gh_update_version(file, increment_type) ==
    LET result == uv_main(file, <<increment_type>>, Some(<<"y">>))
    IN  IF result.exit # 0
        THEN [new_version |-> RuntimeError, pubspec |-> result.pubspec]
        ELSE [new_version |-> get_current_version(result.pubspec),
              pubspec     |-> result.pubspec]

update_version(manager, file, increment_type) ==
    IF manager = "SimpleReleaseManager" THEN sr_update_version(file, increment_type)
    ELSE gh_update_version(file, increment_type)

\* new_name = f"cg500_ble_app_v{version}.apk"
ReleaseApkName(version) == <<"c", "g", "5", "0", "0", "_", "b", "l", "e", "_", "a", "p", "p", "_", "v">> \o version \o DotApk

BuiltApkName == <<"a", "p", "p", "-", "r", "e", "l", "e", "a", "s", "e", ".", "a", "p", "k">>                   \* app-release.apk

\* tag = f"v{version}"
TagOf(version) == <<"v">> \o version

\* the order with the push moved before the GitHub release
StepOrder_push_early ==
    <<"update_version", "commit_version_change", "build_release_apk",
      "rename_apk_for_release", "push_changes", "create_github_release">>

\* the statements of release(), in their order
StepOrder ==
    <<"update_version", "commit_version_change", "build_release_apk",
      "rename_apk_for_release", "create_github_release", "push_changes">>

\* the steps with every git failure raised to release()
FatalSteps_with_git ==
    {"update_version", "commit_version_change", "build_release_apk",
     "rename_apk_for_release", "create_github_release", "push_changes"}

\* the steps whose exception reaches 'except Exception' of release():
\* commit_version_change and push_changes catch CalledProcessError themselves
FatalSteps ==
    {"update_version", "build_release_apk", "rename_apk_for_release",
     "create_github_release"}

\* the step after `step`, "done" after the last one
StepAfter(step) ==
    LET i == CHOOSE k \in 1..6 : StepOrder[k] = step
    IN  IF i = 6 THEN "done" ELSE StepOrder[i + 1]

\* the except clause that puts the old version back into pubspec.yaml
pubspec_after_failure_rollback(file, old_version) ==
    IF old_version.ok
    THEN sr_update_version_in_pubspec(file, old_version.val)
    ELSE file

\* except Exception as e: print(...); return False -- pubspec.yaml stays as
\* the failed run left it
pubspec_after_failure(file, old_version) == file

\* rel after `step` ended with `ok`: logged, and release() goes on, returns
\* True after the last step or returns False from its except clause
Stepped(r, step, ok) ==
    LET failed == ~ok /\ step \in FatalSteps
        next   == IF failed THEN "done" ELSE StepAfter(step)
    IN  [r EXCEPT !.log    = Append(r.log, [step |-> step, ok |-> ok]),
                  !.pc     = next,
                  !.result = IF failed THEN "False"
                             ELSE IF next = "done" THEN "True"
                             ELSE "running"]

(***************************************************************************)
(* SpecRelease: release() run up to MaxReleases times in one project with  *)
(* one manager and one increment type.                                     *)
(***************************************************************************)
MaxReleases == 3

Managers == {"SimpleReleaseManager", "GitHubReleaseManager"}

InitRelease ==
    /\ v1 = <<>> /\ v2 = <<>> /\ v3 = <<>>
    /\ fn = "none"
    /\ out = 0
    /\ IdleHttp
    /\ pubspec \in Pubspecs
    /\ \E manager \in Managers, increment_type \in IncrementTypes :
          rel = [pc             |-> "done",
                 manager        |-> manager,
                 increment_type |-> increment_type,
                 runs           |-> 0,
                 log            |-> <<>>,
                 old_version    |-> ValueError,
                 new_version    |-> ValueError,
                 apk            |-> None,
                 tag            |-> None,
                 committed      |-> FALSE,
                 pushed         |-> FALSE,
                 result         |-> "none",
                 prev           |-> [new_version |-> ValueError, result |-> "none"]]

\* manager.release(increment_type) is called
StartRelease ==
    /\ rel.pc = "done"
    /\ rel.runs < MaxReleases
    /\ rel' = [rel EXCEPT !.pc          = StepOrder[1],
                          !.runs        = rel.runs + 1,
                          !.log         = <<>>,
                          !.old_version = get_current_version(pubspec),
                          !.new_version = ValueError,
                          !.apk         = None,
                          !.tag         = None,
                          !.committed   = FALSE,
                          !.pushed      = FALSE,
                          !.result      = "running",
                          !.prev        = [new_version |-> rel.new_version,
                                           result      |-> rel.result]]
    /\ UNCHANGED <<pureVars, httpVars, pubspec>>

\* new_version = self.update_version(increment_type)
UpdateVersion ==
    /\ rel.pc = "update_version"
    /\ \E u \in {update_version(rel.manager, pubspec, rel.increment_type)} :
           /\ rel' = [Stepped(rel, "update_version", u.new_version.ok)
                         EXCEPT !.new_version = u.new_version]
           /\ pubspec' = u.pubspec
    /\ UNCHANGED <<pureVars, httpVars>>

\* self.commit_version_change(new_version): git add, git commit
CommitVersionChange ==
    \E git_ok \in BOOLEAN :
        LET r == Stepped(rel, "commit_version_change", git_ok)
        IN  /\ rel.pc = "commit_version_change"
            /\ rel' = [r EXCEPT !.committed = git_ok]
            /\ pubspec' = IF r.result = "False"
                          THEN pubspec_after_failure(pubspec, rel.old_version)
                          ELSE pubspec
            /\ UNCHANGED <<pureVars, httpVars>>

\* apk_path = self.build_release_apk(): flutter clean, pub get, build apk,
\* then the glob of the build directory
BuildReleaseApk ==
    \E outcome \in {"built", "CalledProcessError", "RuntimeError", "FileNotFoundError"} :
        LET r == Stepped(rel, "build_release_apk", outcome = "built")
        IN  /\ rel.pc = "build_release_apk"
            /\ rel' = [r EXCEPT !.apk = IF outcome = "built" THEN Some(BuiltApkName) ELSE None]
            /\ pubspec' = IF r.result = "False"
                          THEN pubspec_after_failure(pubspec, rel.old_version)
                          ELSE pubspec
            /\ UNCHANGED <<pureVars, httpVars>>

\* release_apk_path = self.rename_apk_for_release(apk_path, new_version)
RenameApkForRelease ==
    \E renamed \in BOOLEAN :
        LET r == Stepped(rel, "rename_apk_for_release", renamed)
        IN  /\ rel.pc = "rename_apk_for_release"
            /\ rel' = [r EXCEPT !.apk = IF renamed THEN Some(ReleaseApkName(rel.new_version.val)) ELSE rel.apk]
            /\ pubspec' = IF r.result = "False"
                          THEN pubspec_after_failure(pubspec, rel.old_version)
                          ELSE pubspec
            /\ UNCHANGED <<pureVars, httpVars>>

\* tag = self.create_github_release(new_version, release_apk_path):
\* gh --version, then gh release create
CreateGithubRelease ==
    \E outcome \in {"created", "gh not found", "gh release create failed"} :
        LET r == Stepped(rel, "create_github_release", outcome = "created")
        IN  /\ rel.pc = "create_github_release"
            /\ rel' = [r EXCEPT !.tag = IF outcome = "created" THEN Some(TagOf(rel.new_version.val)) ELSE None]
            /\ pubspec' = IF r.result = "False"
                          THEN pubspec_after_failure(pubspec, rel.old_version)
                          ELSE pubspec
            /\ UNCHANGED <<pureVars, httpVars>>

\* self.push_changes(): git push, git push --tags
PushChanges ==
    \E git_ok \in BOOLEAN :
        LET r == Stepped(rel, "push_changes", git_ok)
        IN  /\ rel.pc = "push_changes"
            /\ rel' = [r EXCEPT !.pushed = git_ok]
            /\ pubspec' = IF r.result = "False"
                          THEN pubspec_after_failure(pubspec, rel.old_version)
                          ELSE pubspec
            /\ UNCHANGED <<pureVars, httpVars>>

NextRelease ==
    \/ StartRelease
    \/ UpdateVersion
    \/ CommitVersionChange
    \/ BuildReleaseApk
    \/ RenameApkForRelease
    \/ CreateGithubRelease
    \/ PushChanges

SpecRelease == InitRelease /\ [][NextRelease]_vars

\* the steps of a release in the order claimed: version bump, commit, APK
\* build, APK rename, GitHub release creation, push
ClaimedOrder ==
    <<"update_version", "commit_version_change", "build_release_apk",
      "rename_apk_for_release", "create_github_release", "push_changes">>

\* the steps whose failure ends the release
ClaimedFatal ==
    {"update_version", "build_release_apk", "rename_apk_for_release",
     "create_github_release"}

\* cg500_ble_app_v{version}.apk
ClaimedApkName(version) == <<"c", "g", "5", "0", "0", "_", "b", "l", "e", "_", "a", "p", "p", "_", "v">> \o version \o <<".", "a", "p", "k">>

\* C27: release() runs version bump, commit, APK build, APK rename, GitHub
\* release creation and push in this order; the GitHub release is created only
\* after the build succeeded and the APK was renamed to
\* cg500_ble_app_v{new version}.apk, the push happens only after the release
\* was created, and when version bump, build, rename or release creation
\* fails no later step runs and release() returns False.
C27_StepsInOrder ==
    /\ \A i \in 1..Len(rel.log) : rel.log[i].step = ClaimedOrder[i]
    /\ rel.tag.present =>
          /\ rel.log[3].ok /\ rel.log[4].ok
          /\ rel.apk = Some(ClaimedApkName(rel.new_version.val))
          /\ rel.tag.value = <<"v">> \o rel.new_version.val
    /\ (\E i \in 1..Len(rel.log) : rel.log[i].step = "push_changes") => rel.tag.present
    /\ \A i \in 1..Len(rel.log) :
          (~rel.log[i].ok /\ rel.log[i].step \in ClaimedFatal) =>
              /\ i = Len(rel.log)
              /\ rel.pc = "done"
              /\ rel.result = "False"

\* a release stopped by a failed rename: built, not released, not pushed
C27_Witness ==
    /\ rel.pc = "done" /\ rel.result = "False"
    /\ Len(rel.log) = 4
    /\ rel.log[3].ok /\ ~rel.log[4].ok
    /\ rel.apk.present /\ ~rel.tag.present

\* C28: release() does not roll the version back: when build, rename or
\* GitHub release creation fails, release() returns False and pubspec.yaml
\* holds the incremented version; a retried release increments it again, so
\* the version of the failed run is skipped.
C28_NoRollback ==
    /\ (rel.pc = "done" /\ rel.result = "False" /\ Len(rel.log) > 1) =>
          /\ rel.new_version.ok
          /\ rel.new_version.val = Incremented(rel.old_version.val, rel.increment_type)
          /\ get_current_version(pubspec) = rel.new_version
    /\ (rel.prev.result = "False" /\ rel.prev.new_version.ok /\ rel.new_version.ok) =>
          /\ rel.new_version.val
                = Incremented(rel.prev.new_version.val, rel.increment_type)
          /\ rel.new_version.val # rel.prev.new_version.val
          /\ rel.tag.present => rel.tag.value # <<"v">> \o rel.prev.new_version.val

\* a release that succeeded on the retry after a failed build
C28_Witness ==
    /\ rel.prev.result = "False" /\ rel.prev.new_version.ok
    /\ rel.pc = "done" /\ rel.result = "True"
    /\ rel.tag.present
    /\ BuildOf(rel.new_version.val) = BuildOf(rel.prev.new_version.val) + 1

\* C29: a failing git commit or git push is not fatal: the failure is not
\* propagated, the remaining steps run and release() returns True, so a
\* GitHub release can exist with the version bump neither committed nor
\* pushed.
C29_GitFailuresNotFatal ==
    /\ \A i \in 1..Len(rel.log) :
          (~rel.log[i].ok /\ rel.log[i].step = "commit_version_change"
              /\ i = Len(rel.log)) =>
                  rel.pc = "build_release_apk" /\ rel.result = "running"
    /\ \A i \in 1..Len(rel.log) :
          (~rel.log[i].ok /\ rel.log[i].step = "push_changes") =>
              rel.pc = "done" /\ rel.result = "True"
    /\ (rel.pc = "done" /\ Len(rel.log) = 6) =>
          /\ rel.result = "True"
          /\ rel.tag.present

\* released although neither the commit nor the push went through
C29_Witness ==
    /\ rel.pc = "done" /\ rel.result = "True"
    /\ rel.tag.present
    /\ ~rel.committed /\ ~rel.pushed
    /\ ~rel.log[2].ok /\ ~rel.log[6].ok

====
